---------------------------- MODULE Spec2Model ----------------------------
(***************************************************************************)
(* Server-authoritative match simulation of PolyDodge (server/Match.ts,    *)
(* server/MatchManager.ts, src/game/network/protocol.ts).                  *)
(*                                                                         *)
(* Number representation                                                   *)
(*  - The two clocks of a match (countdown, matchTime) are IEEE-754        *)
(*    doubles that are decremented by TICK_DT = 1/30 on every tick.  They  *)
(*    are modelled exactly: a double is a signed integer count of 2^-57    *)
(*    (the unit in the last place of 1/30), kept in three limbs of 24 bits,*)
(*    and every subtraction rounds to 53 significant bits, ties to even.   *)
(*  - Lengths are integers in units of 1/60 m, velocities in units of      *)
(*    1/60 m per tick (0.5 m/s), stamina in units of 1/6 point.  With the  *)
(*    axis-aligned move and aim vectors drawn here every position update   *)
(*    is exact in these units; the damping products of the ball physics    *)
(*    (x 0.6, x 0.9, x 0.2) are rounded toward zero to the velocity unit.  *)
(***************************************************************************)
EXTENDS Integers, Sequences, FiniteSets, TLC

VARIABLES
    players,       \* Match.players: id -> ServerPlayer (a function on the ids present)
    balls,         \* Match.balls: 0..5 -> ServerBall
    events,        \* Match.events: the accumulator since the last broadcast
    matchState,    \* Match.matchState
    countdown,     \* Match.countdown (double)
    matchTime,     \* Match.matchTime (double)
    tickCount,     \* Match.tickCount
    tickInterval,  \* Match.tickInterval: "null", "running" or "cleared"
    registered,    \* MatchManager.matches holds this match
    playerMatchMap,\* MatchManager.playerMatchMap: the sockets mapped to this match
    snapshot,      \* the WorldSnapshot emitted last (socket.emit('snapshot', ..))
    applied,       \* history: id -> the values assigned to lastInputSeq, in order
    winCount,      \* history: number of win events appended to events
    stopCalls,     \* history: number of calls of Match.stop()
    connected,     \* the sockets whose handleConnection listeners are live
    casualQueue,   \* MatchManager.casualQueue
    rankedQueue,   \* MatchManager.rankedQueue
    matches,       \* MatchManager.matches: match id -> Match
    matchIdOf,     \* MatchManager.playerMatchMap: socket id -> match id
    matchCount,    \* history: number of matches created by checkQueue
    snapshots,     \* NetworkManager.snapshots: the client's snapshot buffer
    returned,      \* the last call of getInterpolatedState: its time and result
    gameState,     \* App: "menu", "lobby" or "playing"
    isOnline,      \* Game.isOnline
    myId,          \* Game.myId: "null", "local" or a socket id
    gamePlayers,   \* Game.players: id -> the client's copy of a player
    gameBalls,     \* Game.balls: ball id -> the client's copy of a ball
    isLocked,      \* Game.controls.isLocked
    lastFrameTime, \* Game.lastFrameTime, in frames
    inputSeq,      \* NetworkManager.inputSeq
    serverTimeOffset, \* NetworkManager.serverTimeOffset
    replaySnapshots,  \* the buffer of a second NetworkManager
    replayOffset,     \* its serverTimeOffset
    replayReturned,   \* its last call of getInterpolatedState
    wire           \* the 'input' packets the client's socket has emitted, not yet received

\* the variables of the match manager
mgrVars == <<connected, casualQueue, rankedQueue, matches, matchIdOf, matchCount>>

\* the variables of the client
\* the variables of Game and of the rest of its NetworkManager
gameVars == <<gameState, isOnline, myId, gamePlayers, gameBalls, isLocked,
              lastFrameTime, inputSeq, serverTimeOffset>>

\* the variables of the second NetworkManager
replayVars == <<replaySnapshots, replayOffset, replayReturned>>

clientVars == <<snapshots, returned, gameVars, replayVars, wire>>

vars == <<players, balls, events, matchState, countdown, matchTime, tickCount,
          tickInterval, registered, playerMatchMap, snapshot, applied, winCount,
          stopCalls, mgrVars, clientVars>>

\* a manager without queued connections and without further matches
NoManager ==
    /\ connected = {} /\ casualQueue = <<>> /\ rankedQueue = <<>>
    /\ matches = <<>> /\ matchIdOf = <<>> /\ matchCount = 0

\* a client that has received no snapshot
NoCall == [kind |-> "none", time |-> 0]

\* the Game and its NetworkManager as their constructors leave them, under
\* the menu of App
NoGame ==
    /\ gameState = "menu" /\ isOnline = FALSE /\ myId = "null"
    /\ gamePlayers = <<>> /\ gameBalls = <<>>
    /\ isLocked = FALSE /\ lastFrameTime = 0
    /\ inputSeq = 0 /\ serverTimeOffset = 0

\* a second NetworkManager as its constructor leaves it
NoReplay == replaySnapshots = <<>> /\ replayOffset = 0 /\ replayReturned = NoCall

NoClient ==
    snapshots = <<>> /\ returned = NoCall /\ NoGame /\ NoReplay /\ wire = <<>>

---------------------------------------------------------------------------
(* IEEE-754 doubles on the grid of 2^-57 *)

\* limb base 2^24
LimbBase == 16777216

\* 2^n for the shifts that occur (n <= 23)
RECURSIVE Pow2(_)
Pow2(n) == IF n = 0 THEN 1 ELSE 2 * Pow2(n - 1)

\* number of bits of a natural number
RECURSIVE BitLen(_)
BitLen(n) == IF n = 0 THEN 0 ELSE 1 + BitLen(n \div 2)

\* a double: sign and magnitude h*2^48 + m*2^24 + l, in units of 2^-57
Dbl(neg, h, m, l) == [neg |-> neg, h |-> h, m |-> m, l |-> l]

DblZero == Dbl(FALSE, 0, 0, 0)

\* magnitude comparison a < b
MagLess(a, b) ==
    \/ a.h < b.h
    \/ a.h = b.h /\ a.m < b.m
    \/ a.h = b.h /\ a.m = b.m /\ a.l < b.l

\* exact magnitude difference a - b for a >= b
MagSub(a, b) ==
    LET l0 == a.l - b.l
        bl == IF l0 < 0 THEN 1 ELSE 0
        m0 == a.m - b.m - bl
        bm == IF m0 < 0 THEN 1 ELSE 0
    IN  [h |-> a.h - b.h - bm,
         m |-> IF m0 < 0 THEN m0 + LimbBase ELSE m0,
         l |-> IF l0 < 0 THEN l0 + LimbBase ELSE l0]

\* round a magnitude to 53 significant bits, ties to even
RoundMag(v) ==
    LET bits == IF v.h = 0 THEN 0 ELSE 48 + BitLen(v.h)
        s    == IF bits > 53 THEN bits - 53 ELSE 0
        P    == Pow2(s)
        q    == v.l \div P
        r    == v.l % P
        up   == s > 0 /\ (2 * r > P \/ (2 * r = P /\ q % 2 = 1))
        l1   == IF up THEN (q + 1) * P ELSE q * P
        cl   == IF l1 = LimbBase THEN 1 ELSE 0
        m1   == v.m + cl
        cm   == IF m1 = LimbBase THEN 1 ELSE 0
    IN  [h |-> v.h + cm,
         m |-> IF m1 = LimbBase THEN 0 ELSE m1,
         l |-> IF l1 = LimbBase THEN 0 ELSE l1]

\* the double a - b for doubles a >= 0 and b > 0 (the only use: clock -= dt)
DblSub(a, b) ==
    IF MagLess(a, b)
    THEN LET d == MagSub(b, a) IN Dbl(TRUE, d.h, d.m, d.l)
    ELSE LET d == RoundMag(MagSub(a, b)) IN Dbl(FALSE, d.h, d.m, d.l)

\* a <= 0
DblLeqZero(a) == a.neg \/ (a.h = 0 /\ a.m = 0 /\ a.l = 0)

\* TICK_DT = 1 / TICK_RATE = 0x1.1111111111111p-5 = 0x11111111111111 * 2^-57
TICK_DT == Dbl(FALSE, 17, 1118481, 1118481)

\* 5 = 5 * 2^9 * 2^48 * 2^-57
CountdownInit == Dbl(FALSE, 2560, 0, 0)

\* 180 = 180 * 2^9 * 2^48 * 2^-57
MatchTimeInit == Dbl(FALSE, 92160, 0, 0)

---------------------------------------------------------------------------
(* Entities *)

\* socket ids in the order MatchManager.checkQueue hands them to the constructor
Sockets == <<"s1", "s2", "s3", "s4">>

\* "holding: number | null": no ball
NoBall == -1

\* "owner: string | null": no owner
NoOwner == "null"

\* the six balls created by the constructor
BallIds == 0 .. 5

\* team of the socket at position i (1-based) of the constructor's list
TeamOf(i) == IF (i - 1) % 2 = 0 THEN "blue" ELSE "red"

\* spawn line of a team: z = -20 for blue, +20 for red
SpawnZ(team) == IF team = "blue" THEN -1200 ELSE 1200

\* values drawn for (Math.random() - 0.5) * 20, a number in [-10, 10)
SpawnXs == {-60, 60}

\* spawn position of ball id: ((id - 2.5) * 5, 0.5, 0)
BallSpawnX(id) == (2 * id - 5) * 150

\* rotation of a freshly constructed player: Math.PI for blue, 0 for red
InitRot(team) == IF team = "blue" THEN "pi" ELSE "0"

\* a ServerPlayer as the constructor creates it
NewPlayer(i, x) ==
    [id |-> Sockets[i], team |-> TeamOf(i),
     x |-> x, z |-> SpawnZ(TeamOf(i)), vx |-> 0, vz |-> 0,
     rot |-> InitRot(TeamOf(i)), state |-> "alive", stamina |-> 600,
     holding |-> NoBall, lastInputSeq |-> 0, inputBuffer |-> <<>>]

\* a ServerBall as the constructor creates it
NewBall(id) ==
    [id |-> id, x |-> BallSpawnX(id), y |-> 30, z |-> 0,
     vx |-> 0, vy |-> 0, vz |-> 0,
     state |-> "idle", owner |-> NoOwner, type |-> "normal", curveFactor |-> 0]

\* the ids of the players in the match, in Map iteration (insertion) order
RECURSIVE OrderFrom(_, _)
OrderFrom(ps, i) ==
    IF i > Len(Sockets) THEN <<>>
    ELSE (IF Sockets[i] \in DOMAIN ps THEN <<Sockets[i]>> ELSE <<>>) \o OrderFrom(ps, i + 1)

PlayerOrder(ps) == OrderFrom(ps, 1)

---------------------------------------------------------------------------
(* Numbers that may be NaN *)

\* the value NaN of a coordinate or velocity component
NaN == 1000000

\* an infinite component of a received move vector (JSON 1e999)
Inf == 2000000

IsNaN(v) == v = NaN

\* a + b
Plus(a, b) == IF IsNaN(a) \/ IsNaN(b) THEN NaN ELSE a + b

\* a * k for a finite k
Times(a, k) == IF IsNaN(a) THEN NaN ELSE a * k

\* Math.max(-limit, Math.min(limit, v)): NaN passes through both
ClampAbs(v, limit) ==
    IF IsNaN(v) THEN NaN
    ELSE IF v > limit THEN limit
    ELSE IF v < -limit THEN -limit
    ELSE v

\* v * num / den rounded toward zero
MulFrac(v, num, den) ==
    IF IsNaN(v) THEN NaN
    ELSE IF v * num >= 0 THEN (v * num) \div den
    ELSE -((-(v * num)) \div den)

\* Math.sign(v) of a finite v
Sign(v) == IF v > 0 THEN 1 ELSE IF v < 0 THEN -1 ELSE 0

\* THREE.Vector3(x, 0, z).normalize() for the vectors drawn here: the zero
\* vector stays zero (length() || 1), an axis-aligned vector becomes a unit
\* vector, and a vector with an infinite component is multiplied by
\* 1 / Infinity = 0, which turns Infinity into NaN and a finite component to 0
Normalize(move) ==
    IF move.x = Inf \/ move.z = Inf
    THEN [x |-> IF move.x = Inf THEN NaN ELSE 0,
          z |-> IF move.z = Inf THEN NaN ELSE 0]
    ELSE [x |-> Sign(move.x), z |-> Sign(move.z)]

\* Math.atan2(aim.x, aim.z) for an axis-aligned aim (atan2(0, 0) = 0)
Atan2(aim) ==
    IF aim.x > 0 THEN "pi/2"
    ELSE IF aim.x < 0 THEN "-pi/2"
    ELSE IF aim.z < 0 THEN "pi"
    ELSE "0"

\* Math.sin(rot), Math.cos(rot) at the four right angles
Sin(rot) == IF rot = "pi/2" THEN 1 ELSE IF rot = "-pi/2" THEN -1 ELSE 0

Cos(rot) == IF rot = "0" THEN 1 ELSE IF rot = "pi" THEN -1 ELSE 0

\* p.pos.distanceTo(b.pos) < r, squared (player height 1.05); false on NaN
DistLess(p, b, r) ==
    /\ ~IsNaN(p.x) /\ ~IsNaN(p.z) /\ ~IsNaN(b.x) /\ ~IsNaN(b.z)
    /\ (b.x - p.x) * (b.x - p.x) + (b.y - 63) * (b.y - 63)
         + (b.z - p.z) * (b.z - p.z) < r * r

\* facing.dot(toBall) > 0.5, toBall the normalized vector from p to b
Facing(p, b) ==
    /\ ~IsNaN(p.x) /\ ~IsNaN(p.z) /\ ~IsNaN(b.x) /\ ~IsNaN(b.z)
    /\ LET dx == b.x - p.x
           dy == b.y - 63
           dz == b.z - p.z
           n  == Sin(p.rot) * dx + Cos(p.rot) * dz
       IN  n > 0 /\ 4 * n * n > dx * dx + dy * dy + dz * dz

---------------------------------------------------------------------------
(* Match: the operations, on a match m (a record of the fields of Match    *)
(* and of the history variables)                                           *)

\* inputBuffer.push(packet) followed by the stable sort by seq
RECURSIVE InsertSorted(_, _)
InsertSorted(buf, packet) ==
    IF buf = <<>> THEN <<packet>>
    ELSE IF buf[Len(buf)].seq <= packet.seq THEN Append(buf, packet)
    ELSE Append(InsertSorted(SubSeq(buf, 1, Len(buf) - 1), packet), buf[Len(buf)])

\* an 'input' listener that buffers every packet of a player, whatever its
\* sequence number
OnInputAnySeq(ps, id, packet) ==
    IF id \in DOMAIN ps
    THEN [ps EXCEPT ![id].inputBuffer = InsertSorted(@, packet)]
    ELSE ps

\* the socket 'input' listener of player id
OnInput(ps, id, packet) ==
    IF id \in DOMAIN ps /\ packet.seq > ps[id].lastInputSeq
    THEN [ps EXCEPT ![id].inputBuffer = InsertSorted(@, packet)]
    ELSE ps

\* the ball a throw releases; charge and curve are in units of 0.5
Thrown(b, p, throwInput) ==
    [b EXCEPT
       !.state = "thrown",
       !.owner = p.id,
       !.x = p.x, !.y = 63 + 90, !.z = p.z,
       !.vx = Sin(p.rot) * (50 + throwInput.charge * 25),
       !.vy = 4 + throwInput.charge * 5,
       !.vz = Cos(p.rot) * (50 + throwInput.charge * 25),
       !.type = IF throwInput.curve > 1 \/ throwInput.curve < -1
                THEN "curve" ELSE "normal",
       !.curveFactor = throwInput.curve]

\* Match.throwBall(p, throwInput)
ThrowBall(m, id, throwInput) ==
    IF m.players[id].holding \notin DOMAIN m.balls THEN m
    ELSE [m EXCEPT !.balls[m.players[id].holding] = Thrown(@, m.players[id], throwInput),
                   !.players[id].holding = NoBall]

\* tryCatch, first branch: a ball in flight is caught
CatchThrown(m, id, bid) ==
    [m EXCEPT
       !.balls[bid].state = "held",
       !.balls[bid].owner = id,
       !.balls[bid].vx = 0, !.balls[bid].vy = 0, !.balls[bid].vz = 0,
       !.players[id].holding = bid,
       !.events = Append(@, [type |-> "catch", playerId |-> id, ballId |-> bid])]

\* tryCatch, second branch: an idle ball is picked up
PickUp(m, id, bid) ==
    [m EXCEPT
       !.balls[bid].state = "held",
       !.balls[bid].owner = id,
       !.players[id].holding = bid]

\* an idle ball is picked up by a player whatever it holds
CatchKindAnyHolder(p, b) ==
    IF b.state = "thrown" /\ b.owner # p.id
    THEN (IF DistLess(p, b, 180) /\ Facing(p, b) THEN "catch" ELSE "none")
    ELSE IF b.state = "idle"
    THEN (IF DistLess(p, b, 120) THEN "pickup" ELSE "none")
    ELSE "none"

\* which branch of the balls.forEach of tryCatch succeeds for ball bid
CatchKind(p, b) ==
    IF b.state = "thrown" /\ b.owner # p.id
    THEN (IF DistLess(p, b, 180) /\ Facing(p, b) THEN "catch" ELSE "none")
    ELSE IF b.state = "idle" /\ p.holding = NoBall
    THEN (IF DistLess(p, b, 120) THEN "pickup" ELSE "none")
    ELSE "none"

\* Match.tryCatch(p): the forEach over the balls from ball bid on; the
\* flag caught ends the search at the first success
RECURSIVE CatchFrom(_, _, _)
CatchFrom(m, id, bid) ==
    IF bid \notin BallIds THEN m
    ELSE IF CatchKind(m.players[id], m.balls[bid]) = "catch" THEN CatchThrown(m, id, bid)
    ELSE IF CatchKind(m.players[id], m.balls[bid]) = "pickup" THEN PickUp(m, id, bid)
    ELSE CatchFrom(m, id, bid + 1)

TryCatch(m, id) == CatchFrom(m, id, 0)

\* movement of one intent: speed, velocity, position, clamp, rotation
Speed(p, input) == IF input.sprint /\ p.stamina > 0 THEN 30 ELSE 16

Move(p, input) ==
    [p EXCEPT
       !.vx = Times(Normalize(input.move).x, Speed(p, input)),
       !.vz = Times(Normalize(input.move).z, Speed(p, input)),
       !.x = ClampAbs(Plus(p.x, Times(Normalize(input.move).x, Speed(p, input))), 1800),
       !.z = ClampAbs(Plus(p.z, Times(Normalize(input.move).z, Speed(p, input))), 1800),
       !.rot = Atan2(input.aim)]

\* stamina: -10 * dt while sprinting, +5 * dt otherwise, clamped to [0, 100]
Stamina(s, sprint) ==
    IF sprint THEN (IF s - 2 < 0 THEN 0 ELSE s - 2)
    ELSE (IF s + 1 > 600 THEN 600 ELSE s + 1)

\* p.lastInputSeq = input.seq
TakeSeq(m, id, input) ==
    [m EXCEPT !.players[id].lastInputSeq = input.seq,
              !.applied[id] = Append(@, input.seq)]

MoveStep(m, id, input) == [m EXCEPT !.players[id] = Move(@, input)]

ThrowIntent(m, id, input) ==
    IF input.throw.active /\ m.players[id].holding # NoBall
    THEN ThrowBall(m, id, input.throw) ELSE m

CatchIntent(m, id, input) == IF input.catch THEN TryCatch(m, id) ELSE m

StaminaStep(m, id, input) ==
    [m EXCEPT !.players[id].stamina = Stamina(@, input.sprint)]

\* a loop body that acts on the intent whatever the player's state is
ActAnyState(m, id, input) ==
    StaminaStep(CatchIntent(ThrowIntent(MoveStep(m, id, input), id, input),
                            id, input), id, input)

\* the part of the loop body after "if (p.state !== 'alive') continue"
Act(m, id, input) ==
    IF m.players[id].state # "alive" THEN m
    ELSE StaminaStep(CatchIntent(ThrowIntent(MoveStep(m, id, input), id, input),
                                 id, input), id, input)

\* the body of the while loop of Match.tick for one shifted intent
ApplyInput(m, id, input) == Act(TakeSeq(m, id, input), id, input)

\* a step 1 that takes one intent per player and tick
DrainOne(m, id) ==
    IF m.players[id].inputBuffer = <<>> THEN m
    ELSE ApplyInput([m EXCEPT !.players[id].inputBuffer = Tail(@)], id,
                    Head(m.players[id].inputBuffer))

\* while (p.inputBuffer.length > 0) { input = shift(); ... }
RECURSIVE Drain(_, _)
Drain(m, id) ==
    IF m.players[id].inputBuffer = <<>> THEN m
    ELSE Drain(ApplyInput([m EXCEPT !.players[id].inputBuffer = Tail(@)], id,
                          Head(m.players[id].inputBuffer)), id)

\* this.players.forEach(p => { ... }) of step 1 of Match.tick
RECURSIVE ProcessInputs(_, _)
ProcessInputs(m, order) ==
    IF order = <<>> THEN m
    ELSE ProcessInputs(Drain(m, Head(order)), Tail(order))

\* a hit that leaves the player alive
HitKeepsAlive(m, bid, id) ==
    [m EXCEPT
       !.events = Append(@, [type |-> "elimination", playerId |-> id,
                             by |-> m.balls[bid].owner]),
       !.balls[bid].state = "idle",
       !.balls[bid].vx = MulFrac(@, 2, 10),
       !.balls[bid].vz = MulFrac(@, 2, 10),
       !.balls[bid].vy = 10]

\* the "HIT!" branch of Match.checkHits
Hit(m, bid, id) ==
    [m EXCEPT
       !.players[id].state = "out",
       !.events = Append(@, [type |-> "elimination", playerId |-> id,
                             by |-> m.balls[bid].owner]),
       !.balls[bid].state = "idle",
       !.balls[bid].vx = MulFrac(@, 2, 10),
       !.balls[bid].vz = MulFrac(@, 2, 10),
       !.balls[bid].vy = 10]

\* one step of the players.forEach of Match.checkHits, for player id
HitStep(m, bid, id) ==
    IF id = m.balls[bid].owner \/ m.players[id].state # "alive" THEN m
    ELSE IF DistLess(m.players[id], m.balls[bid], 60) THEN Hit(m, bid, id)
    ELSE m

\* Match.checkHits(b)
RECURSIVE CheckHits(_, _, _)
CheckHits(m, bid, order) ==
    IF order = <<>> THEN m
    ELSE CheckHits(HitStep(m, bid, Head(order)), bid, Tail(order))

\* gravity above the resting height
Gravity(b) == [b EXCEPT !.vy = IF b.y > 21 THEN @ - 1 ELSE @]

\* b.pos.add(b.vel * dt)
MoveBall(b) == [b EXCEPT !.x = Plus(@, b.vx), !.y = @ + b.vy, !.z = Plus(@, b.vz)]

\* floor bounce
Floor(b) ==
    IF b.y < 21
    THEN [b EXCEPT
            !.y = 21,
            !.vy = MulFrac(@, -6, 10),
            !.vx = MulFrac(@, 9, 10),
            !.vz = MulFrac(@, 9, 10),
            !.state = IF b.state = "thrown" THEN "idle" ELSE @,
            !.owner = IF b.state = "thrown" THEN NoOwner ELSE @,
            !.type = IF b.state = "thrown" THEN "normal" ELSE @]
    ELSE b

\* wall bounce along x, limit 29 (Math.abs(NaN) > limit is false)
WallX(b) ==
    IF ~IsNaN(b.x) /\ (b.x > 1740 \/ b.x < -1740)
    THEN [b EXCEPT !.x = Sign(b.x) * 1740, !.vx = MulFrac(@, -6, 10), !.state = "idle"]
    ELSE b

\* wall bounce along z
WallZ(b) ==
    IF ~IsNaN(b.z) /\ (b.z > 1740 \/ b.z < -1740)
    THEN [b EXCEPT !.z = Sign(b.z) * 1740, !.vz = MulFrac(@, -6, 10), !.state = "idle"]
    ELSE b

\* gravity, move, floor bounce and wall bounce of a ball that is not held
FreeBall(b) == WallZ(WallX(Floor(MoveBall(Gravity(b)))))

\* b.state === 'thrown' && b.vel.length() > 5
HitDue(b) == b.state = "thrown" /\ b.vx * b.vx + b.vy * b.vy + b.vz * b.vz > 100

\* hit detection at the end of the free branch
DetectHits(m, bid) ==
    IF HitDue(m.balls[bid]) THEN CheckHits(m, bid, PlayerOrder(m.players)) ELSE m

\* the held branch: the ball follows its holder, or is dropped without one
HeldBall(m, bid) ==
    IF m.balls[bid].owner \in DOMAIN m.players
    THEN [m EXCEPT !.balls[bid].x = m.players[m.balls[bid].owner].x,
                   !.balls[bid].y = 63 + 60,
                   !.balls[bid].z = m.players[m.balls[bid].owner].z]
    ELSE [m EXCEPT !.balls[bid].state = "idle", !.balls[bid].owner = NoOwner]

\* one step of the balls.forEach of step 2 of Match.tick, for ball bid
StepBall(m, bid) ==
    IF m.balls[bid].state = "thrown" \/ m.balls[bid].state = "idle"
    THEN DetectHits([m EXCEPT !.balls[bid] = FreeBall(@)], bid)
    ELSE IF m.balls[bid].state = "held" /\ m.balls[bid].owner # NoOwner
    THEN HeldBall(m, bid)
    ELSE m

RECURSIVE PhysicsFrom(_, _)
PhysicsFrom(m, bid) ==
    IF bid \notin BallIds THEN m
    ELSE PhysicsFrom(StepBall(m, bid), bid + 1)

\* step 2 of Match.tick
Physics(m) == PhysicsFrom(m, 0)

\* Match.respawnAll(); rnd[id] is the x drawn for player id
RespawnAll(m, rnd) ==
    [m EXCEPT
       !.players = [id \in DOMAIN @ |->
                      [@[id] EXCEPT
                         !.x = rnd[id], !.z = SpawnZ(m.players[id].team),
                         !.vx = 0, !.vz = 0,
                         !.state = "alive", !.stamina = 600, !.holding = NoBall]],
       !.balls = [bid \in BallIds |->
                    [@[bid] EXCEPT
                       !.state = "idle", !.owner = NoOwner,
                       !.vx = 0, !.vy = 0, !.vz = 0,
                       !.x = BallSpawnX(bid), !.y = 30, !.z = 0]]]

\* a ball drop that clears the owner and leaves the ball held
DroppedStillHeld(b, id) ==
    IF b.owner = id
    THEN [b EXCEPT !.owner = NoOwner, !.vx = 0, !.vy = 0, !.vz = 0]
    ELSE b

\* a ball drop that sets the ball idle and keeps its owner
DroppedKeepsOwner(b, id) ==
    IF b.owner = id
    THEN [b EXCEPT !.state = "idle", !.vx = 0, !.vy = 0, !.vz = 0]
    ELSE b

\* a removePlayer that leaves the balls of the leaving player as they are
DroppedNothing(b, id) == b

\* the ball drop of Match.removePlayer for one ball
Dropped(b, id) ==
    IF b.owner = id
    THEN [b EXCEPT !.state = "idle", !.owner = NoOwner, !.vx = 0, !.vy = 0, !.vz = 0]
    ELSE b

\* a removePlayer that pushes the elimination event without looking for the
\* player
RemovePlayerAlwaysEvent(m, id) ==
    [m EXCEPT
       !.events = Append(@, [type |-> "elimination", playerId |-> id,
                             by |-> "disconnect"]),
       !.balls = [bid \in BallIds |-> Dropped(@[bid], id)],
       !.players = [q \in DOMAIN @ \ {id} |-> @[q]]]

\* Match.removePlayer(id)
RemovePlayer(m, id) ==
    [m EXCEPT
       !.events = IF id \in DOMAIN m.players
                  THEN Append(@, [type |-> "elimination", playerId |-> id,
                                  by |-> "disconnect"])
                  ELSE @,
       !.balls = [bid \in BallIds |-> Dropped(@[bid], id)],
       !.players = [q \in DOMAIN @ \ {id} |-> @[q]]]

\* Match.isFinished()
IsFinished == DblLeqZero(matchTime) \/ DOMAIN players = {}

---------------------------------------------------------------------------
(* Match: construction, the timer and the tick *)

\* a stop() that leaves the interval timer running
StopKeepsTimer(ti) == ti

\* Match.stop() applied to the tickInterval field: clearInterval on a handle
\* that is set; the field itself is never reset to null
Stop(ti) == IF ti # "null" THEN "cleared" ELSE ti

\* position of a socket id in the constructor's list
IndexOf(id) == CHOOSE j \in 1 .. Len(Sockets) : Sockets[j] = id

\* new Match(id, mode, sockets) followed by match.start(), as
\* MatchManager.checkQueue does; xs[i] is the x drawn for socket i
NewMatch(n, xs) ==
    [players      |-> [id \in {Sockets[i] : i \in 1 .. n} |->
                         NewPlayer(IndexOf(id), xs[IndexOf(id)])],
     balls        |-> [bid \in BallIds |-> NewBall(bid)],
     events       |-> <<>>,
     matchState   |-> "warmup",
     countdown    |-> CountdownInit,
     matchTime    |-> MatchTimeInit,
     tickCount    |-> 0,
     tickInterval |-> "running",
     snapshot     |-> [tick |-> 0, events |-> <<>>, to |-> {}],
     applied      |-> [id \in {Sockets[i] : i \in 1 .. n} |-> <<>>],
     winCount     |-> 0,
     stopCalls    |-> 0]

\* this.tickCount++
Count(m) == [m EXCEPT !.tickCount = @ + 1]

\* this.countdown -= dt in warmup, this.matchTime -= dt while playing
Clocks(m) ==
    [m EXCEPT
       !.countdown = IF m.matchState = "warmup" THEN DblSub(@, TICK_DT) ELSE @,
       !.matchTime = IF m.matchState = "playing" THEN DblSub(@, TICK_DT) ELSE @]

\* a state machine that restarts the warmup when the match time has elapsed
PhaseAfterRestart(ms, c, t) ==
    IF ms = "warmup" THEN (IF DblLeqZero(c) THEN "playing" ELSE "warmup")
    ELSE IF ms = "playing" THEN (IF DblLeqZero(t) THEN "warmup" ELSE "playing")
    ELSE ms

\* the phase after the clocks have been decremented to c and t
PhaseAfter(ms, c, t) ==
    IF ms = "warmup" THEN (IF DblLeqZero(c) THEN "playing" ELSE "warmup")
    ELSE IF ms = "playing" THEN (IF DblLeqZero(t) THEN "finished" ELSE "playing")
    ELSE ms

\* the winner named by the win event
WinnerOf(ps) == "draw"

\* warmup -> playing: countdown = 0 and respawnAll()
StartPlaying(m, rnd) ==
    RespawnAll([m EXCEPT !.matchState = "playing", !.countdown = DblZero], rnd)

\* playing -> finished: the win event and stop()
Finish(m) ==
    [m EXCEPT !.matchState = "finished",
              !.events = Append(@, [type |-> "win", winner |-> WinnerOf(m.players)]),
              !.winCount = @ + 1,
              !.stopCalls = @ + 1,
              !.tickInterval = Stop(@)]

\* the branch of the state machine that the phase ms selects
Enter(m, ms, rnd) ==
    IF m.matchState = "warmup" /\ ms = "playing" THEN StartPlaying(m, rnd)
    ELSE IF m.matchState = "playing" /\ ms = "finished" THEN Finish(m)
    ELSE [m EXCEPT !.matchState = ms]

\* the state machine at the head of Match.tick, after the clocks
Transition(m, rnd) ==
    Enter(m, PhaseAfter(m.matchState, m.countdown, m.matchTime), rnd)

\* a cadence of every 3rd tick
BroadcastDueThird(n) == n % 3 = 0

\* whether tick number n broadcasts a snapshot
BroadcastDue(n) == n % 2 = 0

\* a broadcast that does not clear the accumulated events
BroadcastKeepsEvents(m) ==
    IF BroadcastDue(m.tickCount)
    THEN [m EXCEPT !.snapshot = [tick |-> m.tickCount, events |-> m.events,
                                 to |-> DOMAIN m.players]]
    ELSE m

\* a tick that ends where stop() has cleared the timer, before the broadcast
BroadcastWhileRunning(m) ==
    IF BroadcastDue(m.tickCount) /\ m.tickInterval = "running"
    THEN [m EXCEPT !.snapshot = [tick |-> m.tickCount, events |-> m.events,
                                 to |-> DOMAIN m.players],
                   !.events = <<>>]
    ELSE m

\* Match.broadcastSnapshot(), called on every 2nd tick
Broadcast(m) ==
    IF BroadcastDue(m.tickCount)
    THEN [m EXCEPT !.snapshot = [tick |-> m.tickCount, events |-> m.events,
                                 to |-> DOMAIN m.players],
                   !.events = <<>>]
    ELSE m

\* step 1 of Match.tick
Inputs(m) == ProcessInputs(m, PlayerOrder(m.players))

\* Match.tick()
TickFn(m, rnd) == Broadcast(Physics(Inputs(Transition(Clocks(Count(m)), rnd))))

\* the x values Match.respawnAll draws in the tick that leaves warmup
RespawnDraws(m) ==
    IF m.matchState = "warmup" /\ DblLeqZero(DblSub(m.countdown, TICK_DT))
    THEN [DOMAIN m.players -> SpawnXs]
    ELSE {[id \in DOMAIN m.players |-> 0]}

\* an InputPacket with the fields the server reads
Packet(seq, move, aim, sprint, throw, catch) ==
    [seq |-> seq, move |-> move, aim |-> aim, sprint |-> sprint,
     throw |-> throw, catch |-> catch]

NoThrow == [active |-> FALSE, charge |-> 0, curve |-> 0]

---------------------------------------------------------------------------
(* Actions *)

\* the match object as a record of the variables
Cur ==
    [players |-> players, balls |-> balls, events |-> events,
     matchState |-> matchState, countdown |-> countdown, matchTime |-> matchTime,
     tickCount |-> tickCount, tickInterval |-> tickInterval, snapshot |-> snapshot,
     applied |-> applied, winCount |-> winCount, stopCalls |-> stopCalls]

\* the variables take the fields of m
Holds(m) ==
    /\ players = m.players /\ balls = m.balls /\ events = m.events
    /\ matchState = m.matchState /\ countdown = m.countdown
    /\ matchTime = m.matchTime /\ tickCount = m.tickCount
    /\ tickInterval = m.tickInterval /\ snapshot = m.snapshot
    /\ applied = m.applied /\ winCount = m.winCount /\ stopCalls = m.stopCalls

\* the match becomes m
Becomes(m) ==
    /\ players' = m.players /\ balls' = m.balls /\ events' = m.events
    /\ matchState' = m.matchState /\ countdown' = m.countdown
    /\ matchTime' = m.matchTime /\ tickCount' = m.tickCount
    /\ tickInterval' = m.tickInterval /\ snapshot' = m.snapshot
    /\ applied' = m.applied /\ winCount' = m.winCount /\ stopCalls' = m.stopCalls

\* the interval timer set by Match.start() fires: Match.tick() runs to completion
Tick ==
    /\ tickInterval = "running"
    /\ \E rnd \in RespawnDraws(Cur) : Becomes(TickFn(Cur, rnd))
    /\ UNCHANGED <<registered, playerMatchMap>>
    /\ UNCHANGED <<mgrVars, clientVars>>

\* an 'input' packet of a connected socket arrives
Input(id, packet) ==
    /\ id \in playerMatchMap
    /\ players' = OnInput(players, id, packet)
    /\ UNCHANGED <<balls, events, matchState, countdown, matchTime, tickCount,
                   tickInterval, registered, playerMatchMap, snapshot, applied,
                   winCount, stopCalls>>
    /\ UNCHANGED <<mgrVars, clientVars>>

\* the 'disconnect' handler of MatchManager.handleConnection for a socket that
\* is mapped to this match: removePlayer when the registry still holds the match
Disconnect(id) ==
    /\ id \in playerMatchMap
    /\ playerMatchMap' = playerMatchMap \ {id}
    /\ Becomes(IF registered THEN RemovePlayer(Cur, id) ELSE Cur)
    /\ UNCHANGED registered
    /\ UNCHANGED <<mgrVars, clientVars>>

\* the 10 s sweep of MatchManager finds this match finished and drops it
Sweep ==
    /\ registered
    /\ IsFinished
    /\ registered' = FALSE
    /\ UNCHANGED <<players, balls, events, matchState, countdown, matchTime,
                   tickCount, tickInterval, playerMatchMap, snapshot, applied,
                   winCount, stopCalls>>
    /\ UNCHANGED <<mgrVars, clientVars>>

\* calls of stop() that are counted
MaxStopCalls == 3

\* Match.stop() is called again on a match that has finished
StopAgain ==
    /\ matchState = "finished"
    /\ stopCalls < MaxStopCalls
    /\ tickInterval' = Stop(tickInterval)
    /\ stopCalls' = stopCalls + 1
    /\ UNCHANGED <<players, balls, events, matchState, countdown, matchTime,
                   tickCount, registered, playerMatchMap, snapshot, applied,
                   winCount>>
    /\ UNCHANGED <<mgrVars, clientVars>>

---------------------------------------------------------------------------
(* The whole life of a casual match, without input *)

\* players of a casual match (requiredPlayers)
CasualPlayers == 2

\* the state after checkQueue has created and started a match of n players
InitNew(n) ==
    /\ \E xs \in [1 .. n -> SpawnXs] : Holds(NewMatch(n, xs))
    /\ registered = TRUE
    /\ NoManager /\ NoClient
    /\ playerMatchMap = {Sockets[i] : i \in 1 .. n}

InitClock == InitNew(CasualPlayers)

NextClock ==
    \/ Tick
    \/ \E id \in playerMatchMap : Disconnect(id)
    \/ Sweep
    \/ StopAgain

SpecClock == InitClock /\ [][NextClock]_vars

---------------------------------------------------------------------------
(* Input arriving around the end of the warmup and of the playing phase *)

\* the match after k more ticks in which no input arrives and nothing is drawn
RECURSIVE Idle(_, _)
Idle(m, k) ==
    IF k = 0 THEN m
    ELSE IF k = 1 THEN TickFn(m, [id \in DOMAIN m.players |-> 0])
    ELSE LET h == Idle(m, k \div 2)
         IN  IF h.tickCount >= 0 THEN Idle(h, k - k \div 2) ELSE h

\* ticks of the warmup that have passed, without input, when the model starts
WarmTicks == 149

\* largest sequence number a packet carries, above the start's lastInputSeq
MaxSeq == 2

\* packets buffered between two ticks
MaxBuf == 2

ZeroVec == [x |-> 0, z |-> 0]

\* the intents drawn here: sprint along +z, and a move vector with an
\* infinite component without sprint
InputKinds(seq) ==
    { Packet(seq, [x |-> 0, z |-> 1], [x |-> 0, z |-> 1], TRUE, NoThrow, FALSE),
      Packet(seq, [x |-> Inf, z |-> 0], [x |-> 0, z |-> 1], FALSE, NoThrow, FALSE) }

\* ticks that have passed, without input, when the model starts late in the
\* playing phase
LateTicks == 5550

\* the match is shortly before the end of the warmup or of the playing phase
InitInput ==
    /\ \E k \in {WarmTicks, LateTicks} :
          Holds(Idle(NewMatch(CasualPlayers, [i \in 1 .. CasualPlayers |-> -60]), k))
    /\ registered = TRUE
    /\ NoManager /\ NoClient
    /\ playerMatchMap = {Sockets[i] : i \in 1 .. CasualPlayers}

\* number of packets buffered in the match
Buffered ==
    Cardinality({s \in (DOMAIN players) \X (1 .. MaxBuf) :
                    s[2] <= Len(players[s[1]].inputBuffer)})

\* a packet arrives, in any order and any number of times, while fewer than
\* MaxBuf packets are buffered
InputArrives ==
    \E id \in playerMatchMap, seq \in 0 .. MaxSeq :
        \E packet \in InputKinds(seq) :
            /\ id \in DOMAIN players
            /\ Buffered < MaxBuf
            /\ Input(id, packet)

\* the tick, up to the end of the warmup and late in the playing phase
TickInput ==
    /\ matchState = "warmup" \/ tickCount >= LateTicks
    /\ Tick

\* a packet arrives on the socket of a connection that is no longer a player
\* of the match: the listener stays registered after removePlayer
InputAbsent ==
    /\ \E i \in 1 .. CasualPlayers, seq \in 0 .. MaxSeq :
          \E packet \in InputKinds(seq) :
              /\ Sockets[i] \notin DOMAIN players
              /\ players' = OnInput(players, Sockets[i], packet)
    /\ UNCHANGED <<balls, events, matchState, countdown, matchTime, tickCount,
                   tickInterval, registered, playerMatchMap, snapshot, applied,
                   winCount, stopCalls>>
    /\ UNCHANGED <<mgrVars, clientVars>>

NextInput ==
    \/ InputArrives
    \/ InputAbsent
    \/ TickInput
    \/ \E id \in playerMatchMap : Disconnect(id)

SpecInput == InitInput /\ [][NextInput]_vars

---------------------------------------------------------------------------
(* Play around the balls: pick up, throw, catch, disconnect *)

\* the intent of a player sprinting from its spawn line to the centre line
WalkPacket(p) ==
    Packet(p.lastInputSeq + 1,
           [x |-> 0, z |-> IF p.team = "blue" THEN 1 ELSE -1],
           [x |-> 0, z |-> IF p.team = "blue" THEN 1 ELSE -1],
           TRUE, NoThrow, FALSE)

\* one such intent arrives from every player, then the tick runs
WalkTick(m) ==
    TickFn([m EXCEPT !.players = [id \in DOMAIN @ |->
                                    OnInput(@, id, WalkPacket(@[id]))[id]]],
           [id \in DOMAIN m.players |-> 0])

\* the match after k such ticks
RECURSIVE Walk(_, _)
Walk(m, k) ==
    IF k = 0 THEN m
    ELSE IF k = 1 THEN WalkTick(m)
    ELSE LET h == Walk(m, k \div 2)
         IN  IF h.tickCount >= 0 THEN Walk(h, k - k \div 2) ELSE h

\* ticks of the walk: 40 sprint steps of 0.5 m from z = +-20 to z = 0
WalkTicks == 40

\* ticks taken from the start of the model
MaxPlayTicks == 2

\* the intents drawn here: a catch attempt or a throw (charge 0, no curve),
\* facing +x or -x
PlayKinds(seq) ==
    { Packet(seq, ZeroVec, [x |-> ax, z |-> 0], FALSE,
             [active |-> th, charge |-> 0, curve |-> 0], ~th) :
        ax \in {-1, 1}, th \in BOOLEAN }

InitPlay ==
    /\ \E xs \in [1 .. CasualPlayers -> SpawnXs] :
          Holds(Walk(NewMatch(CasualPlayers, xs), WalkTicks))
    /\ registered = TRUE
    /\ NoManager /\ NoClient
    /\ playerMatchMap = {Sockets[i] : i \in 1 .. CasualPlayers}

\* the sequence number a client that numbers its packets 1, 2, .. sends next
NextSeq(p) == p.lastInputSeq + Len(p.inputBuffer) + 1

\* the next packet of a client arrives (here in sending order, once)
PlayArrives ==
    \E id \in playerMatchMap \cap DOMAIN players :
        \E packet \in PlayKinds(NextSeq(players[id])) :
            /\ packet.seq <= WalkTicks + MaxSeq
            /\ Len(players[id].inputBuffer) < MaxBuf
            /\ Input(id, packet)

TickPlay == tickCount < WalkTicks + MaxPlayTicks /\ Tick

\* Match.removePlayer(id) is called for an id that is not, or no longer, a
\* player of the match
RemoveAbsent ==
    /\ \E i \in 1 .. Len(Sockets) :
          /\ Sockets[i] \notin DOMAIN players
          /\ Becomes(RemovePlayer(Cur, Sockets[i]))
    /\ UNCHANGED <<registered, playerMatchMap>>
    /\ UNCHANGED <<mgrVars, clientVars>>

NextPlay ==
    \/ PlayArrives
    \/ TickPlay
    \/ \E id \in playerMatchMap : Disconnect(id)
    \/ RemoveAbsent

SpecPlay == InitPlay /\ [][NextPlay]_vars

---------------------------------------------------------------------------
(* Claims *)

\* C1: in every reachable state, for every ball b and player p, b is held
\* with owner p exactly when p.holding is b.
C1_HeldIffHolding ==
    \A bid \in BallIds : \A id \in DOMAIN players :
        (balls[bid].state = "held" /\ balls[bid].owner = id)
            <=> players[id].holding = bid

\* C10: no ball has state held with owner null.
C10_HeldHasOwner ==
    \A bid \in BallIds : ~(balls[bid].state = "held" /\ balls[bid].owner = NoOwner)

\* C10: a player that held a ball has been removed, another ball is still held
C10_Witness ==
    /\ \E bid \in BallIds : balls[bid].state = "held"
    /\ \E bid \in BallIds : balls[bid].state = "idle" /\ balls[bid].vy = 0
                            /\ balls[bid].y > 30
    /\ Cardinality(DOMAIN players) = 1


\* whether a sequence of numbers is strictly increasing
Increasing(seqs) ==
    \A i \in DOMAIN seqs : \A j \in DOMAIN seqs : i < j => seqs[i] < seqs[j]

\* the sequence numbers of the intents in a buffer
SeqsOf(buf) == [i \in DOMAIN buf |-> buf[i].seq]

\* C2: per connection the sequence numbers applied by tick() are strictly
\* increasing, and a tick applies every enqueued intent once: it appends the
\* buffered sequence numbers to the applied ones and leaves the buffer empty.
C2_AppliedOnce ==
    [][\A id \in DOMAIN players' :
          /\ Increasing(applied'[id])
          /\ tickCount' # tickCount =>
                /\ players'[id].inputBuffer = <<>>
                /\ applied'[id] = applied[id] \o SeqsOf(players[id].inputBuffer)]_vars

C4_PlayingAfter150 ==
    /\ tickCount \in 1 .. 149 => matchState = "warmup"
    /\ tickCount = 150 => matchState = "playing"

\* every player alive with stamina 100, no ball, on its team's spawn line;
\* every ball idle, unowned, at its spawn position
AllAtSpawn ==
    /\ \A id \in DOMAIN players :
          /\ players[id].state = "alive"
          /\ players[id].stamina = 600
          /\ players[id].holding = NoBall
          /\ players[id].z = SpawnZ(players[id].team)
    /\ \A bid \in BallIds :
          /\ balls[bid].state = "idle"
          /\ balls[bid].owner = NoOwner
          /\ balls[bid].x = BallSpawnX(bid)
          /\ balls[bid].y = 30
          /\ balls[bid].z = 0

\* C5: at the end of the tick in which the phase changes from warmup to
\* playing, all players and balls are in their spawn configuration.
C5_SpawnedWhenPlaying ==
    [][(matchState = "warmup" /\ matchState' = "playing") => AllAtSpawn']_vars

\* number of alive players of a team
AliveOf(team) ==
    Cardinality({id \in DOMAIN players :
                    players[id].team = team /\ players[id].state = "alive"})

\* the winners named by the win events of the event queue and of the snapshot
\* sent last
WinnersNamed ==
    {e.winner : e \in {x \in {events[i] : i \in DOMAIN events}
                              \cup {snapshot.events[i] : i \in DOMAIN snapshot.events} :
                          x.type = "win"}}

\* C6: the win event emitted when the remaining time reaches zero names the
\* team with strictly more alive players at that moment, and draw only when
\* both teams have equally many.
C6_WinnerHasMoreAlive ==
    [][(matchState = "playing" /\ matchState' = "finished") =>
          WinnersNamed' = { IF AliveOf("blue") > AliveOf("red") THEN "blue"
                            ELSE IF AliveOf("red") > AliveOf("blue") THEN "red"
                            ELSE "draw" }]_vars

\* C7: once the phase is finished, tickCount and matchTime never change
\* again, exactly one win event has been appended, and a further stop()
\* changes nothing of the match.
C7_FinishedIsFinal ==
    [][matchState = "finished" =>
          /\ tickCount' = tickCount /\ matchTime' = matchTime
          /\ winCount = 1 /\ winCount' = 1
          /\ stopCalls' # stopCalls =>
                UNCHANGED <<players, balls, events, matchState, countdown,
                            matchTime, tickCount, tickInterval, registered,
                            playerMatchMap, snapshot, applied, winCount>>]_vars

\* C7: stop() has been called again on a finished match
C7_Witness == matchState = "finished" /\ stopCalls >= 2 /\ winCount = 1

\* C8: once the player set is empty, no tick of the match executes, also
\* after the sweep has dropped the match from the registry.
C8_EmptyMatchStops ==
    [][DOMAIN players = {} => tickCount' = tickCount]_vars

\* C9: every player's stamina is within [0, 100] and its x and z are within
\* [-30, 30].
C9_StaminaAndArena ==
    \A id \in DOMAIN players :
        /\ players[id].stamina >= 0 /\ players[id].stamina <= 600
        /\ players[id].x >= -1800 /\ players[id].x <= 1800
        /\ players[id].z >= -1800 /\ players[id].z <= 1800


\* a ball that is idle or thrown and has an owner
Loose(b) == b.state \in {"idle", "thrown"} /\ b.owner # NoOwner

\* C11: a released ball is not idle or thrown with a non-null owner at the end
\* of two consecutive ticks.
C11_OwnerClearedAfterRelease ==
    [][tickCount' # tickCount =>
          \A bid \in BallIds : ~(Loose(balls[bid]) /\ Loose(balls'[bid]))]_vars


\* every ball's owner is null or a player of the match
OwnersPresent ==
    \A bid \in BallIds : balls[bid].owner \in DOMAIN players \cup {NoOwner}

\* C12: removePlayer(id) leaves every ball whose owner was id idle with owner
\* null, and afterwards no ball references a player that is not in the match.
C12_RemovedOwnerDrops ==
    [][/\ \A id \in DOMAIN players \ DOMAIN players' :
             \A bid \in BallIds :
                 balls[bid].owner = id =>
                     balls'[bid].state = "idle" /\ balls'[bid].owner = NoOwner
       /\ OwnersPresent']_vars

\* C12: a player that held a ball has been removed: the ball is idle, unowned
\* and at rest at the height at which it was held
C12_Witness ==
    /\ Cardinality(DOMAIN players) < CasualPlayers
    /\ \E bid \in BallIds :
          /\ balls[bid].state = "idle" /\ balls[bid].owner = NoOwner
          /\ balls[bid].y = 123 /\ balls[bid].vy = 0

\* the elimination event of a disconnect
DisconnectEvent(id) == [type |-> "elimination", playerId |-> id, by |-> "disconnect"]

---------------------------------------------------------------------------
(* A throw along the arena at a standing player *)

\* the players in walkers each send their walking intent, then the tick runs
AdvanceTick(m, walkers) ==
    TickFn([m EXCEPT !.players = [id \in DOMAIN @ |->
                                    IF id \in walkers
                                    THEN OnInput(@, id, WalkPacket(@[id]))[id]
                                    ELSE @[id]]],
           [id \in DOMAIN m.players |-> 0])

\* the match after k such ticks
RECURSIVE Advance(_, _, _)
Advance(m, walkers, k) ==
    IF k = 0 THEN m
    ELSE IF k = 1 THEN AdvanceTick(m, walkers)
    ELSE LET h == Advance(m, walkers, k \div 2)
         IN  IF h.tickCount >= 0 THEN Advance(h, walkers, k - k \div 2) ELSE h

\* ticks in which both players walk: red reaches z = 12.5
BothWalk == 15

\* further ticks in which only blue walks: blue reaches z = 0
BlueWalk == 25

\* ticks taken from the start of the model
MaxHitTicks == 20

\* packets a player sends after its walk
MaxHitPackets == 2

\* the intents drawn here: blue catches or throws (charge 0) facing +z, red
\* tries to catch facing -z; nobody moves
HitKinds(p, seq) ==
    IF p.team = "blue"
    THEN { Packet(seq, ZeroVec, [x |-> 0, z |-> 1], FALSE,
                  [active |-> th, charge |-> 0, curve |-> 0], ~th) : th \in BOOLEAN }
    ELSE { Packet(seq, ZeroVec, [x |-> 0, z |-> -1], FALSE, NoThrow, TRUE) }

\* both players on the line x = -1, blue at the centre line, red at z = 12.5
InitHit ==
    /\ Holds(Advance(Advance(NewMatch(CasualPlayers,
                                      [i \in 1 .. CasualPlayers |-> -60]),
                             {Sockets[i] : i \in 1 .. CasualPlayers}, BothWalk),
                     {Sockets[1]}, BlueWalk))
    /\ registered = TRUE
    /\ NoManager /\ NoClient
    /\ playerMatchMap = {Sockets[i] : i \in 1 .. CasualPlayers}

\* the next packet of a player arrives
HitArrives ==
    \E id \in playerMatchMap :
        /\ id \in DOMAIN players
        /\ players[id].inputBuffer = <<>>
        /\ Len(applied[id]) < BothWalk + MaxHitPackets
              + (IF players[id].team = "blue" THEN BlueWalk ELSE 0)
        /\ \E packet \in HitKinds(players[id], NextSeq(players[id])) :
              Input(id, packet)

TickHit == tickCount < BothWalk + BlueWalk + MaxHitTicks /\ Tick

NextHit ==
    \/ HitArrives
    \/ TickHit
    \/ \E id \in playerMatchMap : Disconnect(id)

SpecHit == InitHit /\ [][NextHit]_vars


\* the events appended to the accumulator between this state and the next,
\* whether or not the next state follows a broadcast
Appended ==
    IF snapshot' # snapshot
    THEN SubSeq(snapshot'.events, Len(events) + 1, Len(snapshot'.events))
    ELSE SubSeq(events', Len(events) + 1, Len(events'))

\* the number of hit eliminations of player id among the events es
HitsOf(es, id) ==
    Cardinality({i \in DOMAIN es :
                    /\ es[i].type = "elimination"
                    /\ es[i].playerId = id
                    /\ es[i].by # "disconnect"})

\* C14: a tick produces exactly one elimination event for a player that a
\* thrown ball hits in it (the player is alive before and out after), and no
\* such event for a player in any other tick, in particular in the ticks that
\* follow the contact.
C14_OneEliminationPerHit ==
    [][tickCount' # tickCount =>
          \A id \in DOMAIN players :
              HitsOf(Appended, id) =
                  IF players[id].state = "alive" /\ players'[id].state = "out"
                  THEN 1 ELSE 0]_vars

\* C14: the standing red player has been hit by blue's throw, and the
\* snapshot that carried the elimination has been followed by another one
C14_Witness ==
    /\ \E id \in DOMAIN players : players[id].state = "out"
    /\ Cardinality(DOMAIN players) = CasualPlayers
    /\ events = <<>>
    /\ snapshot.events = <<>>


\* whether the sequence a is a prefix of the sequence b
IsPrefix(a, b) == Len(a) <= Len(b) /\ SubSeq(b, 1, Len(a)) = a

\* C15: a broadcast sends the events accumulated since the previous broadcast
\* and leaves the accumulator empty; between broadcasts events are only
\* appended. So every event is in the events list of at most one snapshot.
C15_EventsSentOnce ==
    [][/\ snapshot' # snapshot =>
             /\ events' = <<>>
             /\ IsPrefix(events, snapshot'.events)
       /\ snapshot' = snapshot => IsPrefix(events, events')]_vars

\* C15: events have been sent, and the tick after the broadcast has left the
\* accumulator empty
C15_Witness ==
    /\ snapshot.events # <<>>
    /\ events = <<>>
    /\ tickCount = snapshot.tick + 1

\* C16: a tick broadcasts a snapshot exactly when its tickCount is even, to
\* the players in the match at that moment; no other step sends a snapshot,
\* and the tick numbers of successive snapshots strictly increase.
C16_BroadcastOnEvenTicks ==
    [][/\ tickCount' # tickCount =>
             IF tickCount' % 2 = 0
             THEN snapshot'.tick = tickCount' /\ snapshot'.to = DOMAIN players'
             ELSE snapshot' = snapshot
       /\ tickCount' = tickCount => snapshot' = snapshot
       /\ snapshot' # snapshot => snapshot'.tick > snapshot.tick]_vars

\* C16: after a player was removed, a snapshot has gone to the one that is
\* left, and an odd tick has passed without a broadcast
C16_Witness ==
    /\ Cardinality(snapshot.to) = 1
    /\ snapshot.to = DOMAIN players
    /\ playerMatchMap = DOMAIN players
    /\ tickCount = snapshot.tick + 1


---------------------------------------------------------------------------
(* The match manager: its two queues, the registry of matches and the map  *)
(* from sockets to match ids.  A match of the registry is kept by the      *)
(* fields isFinished reads and by its interval timer.                      *)

\* requiredPlayers of a ranked match
RankedPlayers == 4

\* requiredPlayers of checkQueue
RequiredPlayers(mode) == IF mode = "casual" THEN CasualPlayers ELSE RankedPlayers

\* the mode argument of joinQueue
Modes == {"casual", "ranked"}

\* queue.filter(s => s.id !== socket.id)
Without(q, id) == SelectSeq(q, LAMBDA s : s # id)

\* the elements of a list of sockets
Ids(q) == {q[i] : i \in DOMAIN q}

\* the manager as one record
Manager ==
    [casualQueue |-> casualQueue, rankedQueue |-> rankedQueue,
     matches |-> matches, matchIdOf |-> matchIdOf, matchCount |-> matchCount]

\* the manager becomes g
ManagerBecomes(g) ==
    /\ casualQueue' = g.casualQueue /\ rankedQueue' = g.rankedQueue
    /\ matches' = g.matches /\ matchIdOf' = g.matchIdOf
    /\ matchCount' = g.matchCount

\* MatchManager.removeFromQueue
RemoveFromQueue(g, id) ==
    [g EXCEPT !.casualQueue = Without(@, id), !.rankedQueue = Without(@, id)]

\* the queue of a mode
QueueOf(g, mode) == IF mode = "casual" THEN g.casualQueue ELSE g.rankedQueue

\* this.casualQueue.push(socket) or this.rankedQueue.push(socket)
Push(g, id, mode) ==
    IF mode = "casual" THEN [g EXCEPT !.casualQueue = Append(@, id)]
    ELSE [g EXCEPT !.rankedQueue = Append(@, id)]

\* a queue.splice that removes nothing
SplicedNothing(g, mode) == g

\* what queue.splice(0, requiredPlayers) leaves in the queue
Spliced(g, mode) ==
    IF mode = "casual"
    THEN [g EXCEPT !.casualQueue = SubSeq(@, RequiredPlayers(mode) + 1, Len(@))]
    ELSE [g EXCEPT !.rankedQueue = SubSeq(@, RequiredPlayers(mode) + 1, Len(@))]

\* new Match(matchId, mode, players) followed by start(): the players in the
\* insertion order of the map, the match clock and the interval timer
StartedMatch(ids) ==
    [players |-> ids, matchTime |-> MatchTimeInit, tickInterval |-> "running"]

\* this.matches.set(matchId, match)
Registered(ms, mid, mt) ==
    [k \in DOMAIN ms \cup {mid} |-> IF k = mid THEN mt ELSE ms[k]]

\* players.forEach(p => this.playerMatchMap.set(p.id, matchId))
Mapped(f, ids, mid) ==
    [s \in DOMAIN f \cup Ids(ids) |-> IF s \in Ids(ids) THEN mid ELSE f[s]]

\* MatchManager.checkQueue; a match id is fresh, here the number of the match
CheckQueue(g, mode) ==
    IF Len(QueueOf(g, mode)) >= RequiredPlayers(mode)
    THEN [Spliced(g, mode) EXCEPT
            !.matches = Registered(@, g.matchCount + 1,
                  StartedMatch(SubSeq(QueueOf(g, mode), 1, RequiredPlayers(mode)))),
            !.matchIdOf = Mapped(@,
                  SubSeq(QueueOf(g, mode), 1, RequiredPlayers(mode)),
                  g.matchCount + 1),
            !.matchCount = @ + 1]
    ELSE g

\* an addToQueue that does not take the socket out of the queues first
AddToQueueKeepsOld(g, id, mode) == CheckQueue(Push(g, id, mode), mode)

\* MatchManager.addToQueue
AddToQueue(g, id, mode) == CheckQueue(Push(RemoveFromQueue(g, id), id, mode), mode)

\* Match.removePlayer, on the player set
PlayerRemoved(mt, id) == [mt EXCEPT !.players = Without(@, id)]

\* this.playerMatchMap.delete(socket.id)
Unmapped(f, id) == [s \in DOMAIN f \ {id} |-> f[s]]

\* the 'disconnect' listener of handleConnection
Disconnected(g, id) ==
    IF id \in DOMAIN g.matchIdOf
    THEN [RemoveFromQueue(g, id) EXCEPT
            !.matches = IF g.matchIdOf[id] \in DOMAIN @
                        THEN [@ EXCEPT ![g.matchIdOf[id]] = PlayerRemoved(@, id)]
                        ELSE @,
            !.matchIdOf = Unmapped(@, id)]
    ELSE RemoveFromQueue(g, id)

\* a finished test that reads the clock only
MatchFinishedByClock(mt) == DblLeqZero(mt.matchTime)

\* Match.isFinished of a match of the registry
MatchFinished(mt) == DblLeqZero(mt.matchTime) \/ Len(mt.players) = 0

\* the sweep of the constructor: matches.delete(id) for every finished match
Swept(ms) == [k \in {j \in DOMAIN ms : ~MatchFinished(ms[j])} |-> ms[k]]

\* matchTime after at most k ticks of the playing phase: each subtracts
\* TICK_DT, and the tick that brings it to 0 or below finishes the match
RECURSIVE ClockAfter(_, _)
ClockAfter(t, k) ==
    IF k = 0 \/ DblLeqZero(t) THEN t
    ELSE IF k = 1 THEN DblSub(t, TICK_DT)
    ELSE ClockAfter(ClockAfter(t, k \div 2), k - k \div 2)

\* ticks taken at once by RunOut
RunChunk == 64

\* matchTime when the playing phase has run out
RECURSIVE RunOut(_)
RunOut(t) == IF DblLeqZero(t) THEN t ELSE RunOut(ClockAfter(t, RunChunk))

\* matchTime of a match whose clock has run out
MatchTimeAtEnd == RunOut(MatchTimeInit)

\* the ticks of a match until its clock runs out: matchTime reaches its last
\* value and the tick that finishes the match calls stop()
TimedOut(mt) ==
    [mt EXCEPT !.matchTime = MatchTimeAtEnd, !.tickInterval = Stop(@)]

\* socket.on('joinQueue', mode), while fewer than cap matches have been created
JoinQueue(id, mode, cap) ==
    /\ id \in connected
    /\ AddToQueue(Manager, id, mode).matchCount <= cap
    /\ ManagerBecomes(AddToQueue(Manager, id, mode))
    /\ UNCHANGED <<players, balls, events, matchState, countdown, matchTime,
                   tickCount, tickInterval, registered, playerMatchMap, snapshot,
                   applied, winCount, stopCalls, connected, clientVars>>

\* socket.on('leaveQueue')
LeaveQueue(id) ==
    /\ id \in connected
    /\ ManagerBecomes(RemoveFromQueue(Manager, id))
    /\ UNCHANGED <<players, balls, events, matchState, countdown, matchTime,
                   tickCount, tickInterval, registered, playerMatchMap, snapshot,
                   applied, winCount, stopCalls, connected, clientVars>>

\* socket.on('disconnect')
SocketDisconnect(id) ==
    /\ id \in connected
    /\ connected' = connected \ {id}
    /\ ManagerBecomes(Disconnected(Manager, id))
    /\ UNCHANGED <<players, balls, events, matchState, countdown, matchTime,
                   tickCount, tickInterval, registered, playerMatchMap, snapshot,
                   applied, winCount, stopCalls, clientVars>>

\* the interval of the constructor fires
SweepMatches ==
    /\ matches' = Swept(matches)
    /\ UNCHANGED <<players, balls, events, matchState, countdown, matchTime,
                   tickCount, tickInterval, registered, playerMatchMap, snapshot,
                   applied, winCount, stopCalls, connected, casualQueue,
                   rankedQueue, matchIdOf, matchCount, clientVars>>

\* a match of the registry ticks until its clock has run out
TimeUp(mid) ==
    /\ mid \in DOMAIN matches
    /\ matches[mid].tickInterval = "running"
    /\ matches' = [matches EXCEPT ![mid] = TimedOut(@)]
    /\ UNCHANGED <<players, balls, events, matchState, countdown, matchTime,
                   tickCount, tickInterval, registered, playerMatchMap, snapshot,
                   applied, winCount, stopCalls, connected, casualQueue,
                   rankedQueue, matchIdOf, matchCount, clientVars>>

\* four sockets have connected; no match exists
InitQueue ==
    /\ Holds(NewMatch(0, <<>>))
    /\ registered = FALSE
    /\ playerMatchMap = {}
    /\ connected = Ids(Sockets)
    /\ casualQueue = <<>> /\ rankedQueue = <<>>
    /\ matches = <<>> /\ matchIdOf = <<>> /\ matchCount = 0
    /\ NoClient

\* matches created when both modes are joined
MaxBothMatches == 1

NextQueue ==
    \/ \E id \in Ids(Sockets), mode \in Modes : JoinQueue(id, mode, MaxBothMatches)
    \/ \E id \in Ids(Sockets) : LeaveQueue(id)
    \/ \E id \in Ids(Sockets) : SocketDisconnect(id)
    \/ SweepMatches
    \/ \E mid \in DOMAIN matches : TimeUp(mid)

SpecQueue == InitQueue /\ [][NextQueue]_vars

\* matches created when the casual queue alone is joined
MaxCasualMatches == 2

NextCasual ==
    \/ \E id \in Ids(Sockets) : JoinQueue(id, "casual", MaxCasualMatches)
    \/ \E id \in Ids(Sockets) : LeaveQueue(id)
    \/ \E id \in Ids(Sockets) : SocketDisconnect(id)
    \/ SweepMatches
    \/ \E mid \in DOMAIN matches : TimeUp(mid)

SpecCasual == InitQueue /\ [][NextCasual]_vars



---------------------------------------------------------------------------
(* Claims about the match manager *)

\* the position of a socket in a list of sockets
In(q, id) == \E i \in DOMAIN q : q[i] = id

\* C17: a step creates at most one match, and only a joinQueue whose socket
\* brings the queue of its mode to the required count (2 casual, 4 ranked);
\* the players of the new match are the front N of that queue in queue
\* order, the match is started, none of them is left in a queue, each is
\* mapped to the new id, and the older matches are untouched.  No queue is
\* ever left holding its required count, and no other step creates a match.
C17_QueuePromotion ==
    [][/\ matchCount' # matchCount =>
             \E id \in connected, mode \in Modes :
                 LET n == IF mode = "casual" THEN 2 ELSE 4
                     old == IF mode = "casual" THEN casualQueue ELSE rankedQueue
                     q == Append(SelectSeq(old, LAMBDA s : s # id), id)
                 IN  /\ matchCount' = matchCount + 1
                     /\ Len(q) >= n
                     /\ matchCount' \notin DOMAIN matches
                     /\ DOMAIN matches' = DOMAIN matches \cup {matchCount'}
                     /\ \A k \in DOMAIN matches : matches'[k] = matches[k]
                     /\ matches'[matchCount'].players = SubSeq(q, 1, n)
                     /\ matches'[matchCount'].tickInterval = "running"
                     /\ \A i \in 1 .. n :
                           /\ ~In(casualQueue', q[i]) /\ ~In(rankedQueue', q[i])
                           /\ q[i] \in DOMAIN matchIdOf'
                           /\ matchIdOf'[q[i]] = matchCount'
       /\ matchCount' = matchCount => DOMAIN matches' \subseteq DOMAIN matches
       /\ Len(casualQueue') < 2 /\ Len(rankedQueue') < 4]_vars

\* C17: a ranked match of four has been created from the ranked queue
C17_Witness ==
    \E mid \in DOMAIN matches :
        /\ Len(matches[mid].players) = 4
        /\ \A i \in 1 .. 4 : matchIdOf[matches[mid].players[i]] = mid
        /\ rankedQueue = <<>>


\* the matches of the registry that still tick and hold the socket as a player
LiveMatchesOf(id) ==
    {mid \in DOMAIN matches :
        matches[mid].tickInterval = "running" /\ In(matches[mid].players, id)}

\* the matches of the registry that hold the socket as a player
MatchesOf(id) == {mid \in DOMAIN matches : In(matches[mid].players, id)}

\* C18: every socket is in at most one of the casual queue, the ranked queue
\* and the player set of a live match, and in the player set of at most one
\* match.
C18_OnePlace ==
    \A id \in Ids(Sockets) :
        /\ (IF In(casualQueue, id) THEN 1 ELSE 0)
             + (IF In(rankedQueue, id) THEN 1 ELSE 0)
             + (IF LiveMatchesOf(id) # {} THEN 1 ELSE 0) <= 1
        /\ Cardinality(MatchesOf(id)) <= 1

\* the clock of a match has elapsed or its player set is empty
Eligible(mt) == DblLeqZero(mt.matchTime) \/ mt.players = <<>>

\* C19: only a match whose clock has elapsed or whose player set is empty
\* ever leaves the registry, and a step that removes matches removes every
\* such match and leaves the others as they were.
C19_SweepRemovesFinished ==
    [][/\ \A mid \in DOMAIN matches \ DOMAIN matches' : Eligible(matches[mid])
       /\ ~(DOMAIN matches \subseteq DOMAIN matches') =>
             /\ DOMAIN matches' = {mid \in DOMAIN matches : ~Eligible(matches[mid])}
             /\ \A mid \in DOMAIN matches' : matches'[mid] = matches[mid]]_vars

\* C19: of two matches the sweep has removed one and kept the other, which
\* is still running with both its players
C19_Witness ==
    /\ matchCount = 2
    /\ Cardinality(DOMAIN matches) = 1
    /\ \A mid \in DOMAIN matches :
          Len(matches[mid].players) = 2 /\ ~DblLeqZero(matches[mid].matchTime)


---------------------------------------------------------------------------
(* The client: the snapshot buffer of NetworkManager and its interpolation *)

\* Date.now() of the server at its k-th broadcast, 15 broadcasts a second
SnapshotTime(k) == (200 * k) \div 3

\* the k-th WorldSnapshot, by its tick and its timestamp
SnapshotNo(k) == [tick |-> 2 * k, timestamp |-> SnapshotTime(k)]

\* length the buffer is cut to
BufferCap == 20

\* a listener that pushes and never shifts
PushedNoShift(buf, snap) == Append(buf, snap)

\* the 'snapshot' listener: push, then shift when more than 20 are held
Pushed(buf, snap) ==
    IF Len(buf) + 1 > BufferCap THEN Tail(Append(buf, snap)) ELSE Append(buf, snap)

\* the delay of the interpolation time behind the server time
InterpolationDelay == 100

\* the indices i whose pair (i, i + 1) surrounds the time t
Windows(buf, t) ==
    {i \in 1 .. Len(buf) - 1 :
        buf[i].timestamp <= t /\ buf[i + 1].timestamp >= t}

\* the index of prev after the loop: the first window, or 0 of the
\* initialisation (1 here, sequences start at 1)
PrevIndex(buf, t) ==
    IF Windows(buf, t) = {} THEN 1
    ELSE CHOOSE i \in Windows(buf, t) : \A j \in Windows(buf, t) : i <= j

\* a result whose fraction is measured from next
ResultAtFromNext(buf, i, t) ==
    IF buf[i + 1].timestamp < t
    THEN [kind |-> "snapshot", time |-> t, snapshot |-> buf[i + 1]]
    ELSE [kind |-> "interpolated", time |-> t, prev |-> buf[i], next |-> buf[i + 1],
          num |-> buf[i + 1].timestamp - t,
          den |-> buf[i + 1].timestamp - buf[i].timestamp]

\* the result for prev = buf[i], next = buf[i + 1]; the fraction is kept as
\* numerator and denominator
ResultAt(buf, i, t) ==
    IF buf[i + 1].timestamp < t
    THEN [kind |-> "snapshot", time |-> t, snapshot |-> buf[i + 1]]
    ELSE [kind |-> "interpolated", time |-> t, prev |-> buf[i], next |-> buf[i + 1],
          num |-> t - buf[i].timestamp,
          den |-> buf[i + 1].timestamp - buf[i].timestamp]

\* a getInterpolatedState that returns the only snapshot of a buffer of one
GetStateFromOne(buf, serverTime) ==
    IF Len(buf) < 1 THEN [kind |-> "null", time |-> serverTime - InterpolationDelay]
    ELSE IF Len(buf) = 1
    THEN [kind |-> "snapshot", time |-> serverTime - InterpolationDelay,
          snapshot |-> buf[1]]
    ELSE ResultAt(buf, PrevIndex(buf, serverTime - InterpolationDelay),
                  serverTime - InterpolationDelay)

\* NetworkManager.getInterpolatedState at the server time estimate serverTime
GetInterpolatedState(buf, serverTime) ==
    IF Len(buf) < 2 THEN [kind |-> "null", time |-> serverTime - InterpolationDelay]
    ELSE ResultAt(buf, PrevIndex(buf, serverTime - InterpolationDelay),
                  serverTime - InterpolationDelay)

\* snapshots the client receives
MaxReceived == 22

\* render frames, 30 a second
MaxFrames == 60

\* the server time estimate of the client at its j-th frame
FrameTime(j) == (100 * j) \div 3

\* the next snapshot of the server arrives
Receive ==
    /\ IF snapshots = <<>> THEN TRUE
       ELSE snapshots[Len(snapshots)].tick < 2 * MaxReceived
    /\ snapshots' =
          Pushed(snapshots,
                 SnapshotNo(IF snapshots = <<>> THEN 1
                            ELSE snapshots[Len(snapshots)].tick \div 2 + 1))
    /\ UNCHANGED <<players, balls, events, matchState, countdown, matchTime,
                   tickCount, tickInterval, registered, playerMatchMap, snapshot,
                   applied, winCount, stopCalls, mgrVars, returned, gameVars,
                   replayVars, wire>>

\* a frame of the client calls getInterpolatedState
Render(j) ==
    /\ returned' = GetInterpolatedState(snapshots, FrameTime(j))
    /\ UNCHANGED <<players, balls, events, matchState, countdown, matchTime,
                   tickCount, tickInterval, registered, playerMatchMap, snapshot,
                   applied, winCount, stopCalls, mgrVars, snapshots, gameVars,
                   replayVars, wire>>

\* a client that has joined a match and has received no snapshot yet
InitClient ==
    /\ Holds(NewMatch(0, <<>>))
    /\ registered = FALSE
    /\ playerMatchMap = {}
    /\ NoManager /\ NoClient

NextClient ==
    \/ Receive
    \/ \E j \in 0 .. MaxFrames : Render(j)

SpecClient == InitClient /\ [][NextClient]_vars

\* C20: a call of getInterpolatedState on a buffer of two or more snapshots
\* that are all older than the interpolation time returns the last snapshot
\* of the buffer.
C20_LaggingReturnsNewest ==
    [][(/\ snapshots' = snapshots
        /\ returned' # returned
        /\ Len(snapshots) >= 2
        /\ \A i \in DOMAIN snapshots : snapshots[i].timestamp < returned'.time) =>
          /\ returned'.kind = "snapshot"
          /\ returned'.snapshot = snapshots[Len(snapshots)]]_vars


---------------------------------------------------------------------------
(* The client with any timestamps: short buffers whose snapshots carry     *)
(* timestamps in any non-decreasing order, equal ones included, and frames *)
(* before, between and after them                                          *)

\* the largest timestamp of a snapshot, in ms
MaxStamp == 3

\* snapshots held in the short buffers
MaxHeld == 3

\* a snapshot with the timestamp ts arrives; the server clock does not run
\* backwards and the connection keeps the order
ReceiveAt(ts) ==
    /\ Len(snapshots) < MaxHeld
    /\ IF snapshots = <<>> THEN TRUE
       ELSE snapshots[Len(snapshots)].timestamp <= ts
    /\ snapshots' =
          Pushed(snapshots, [tick |-> 2 * (Len(snapshots) + 1), timestamp |-> ts])
    /\ UNCHANGED <<players, balls, events, matchState, countdown, matchTime,
                   tickCount, tickInterval, registered, playerMatchMap, snapshot,
                   applied, winCount, stopCalls, mgrVars, returned, gameVars,
                   replayVars, wire>>

\* a frame of the client calls getInterpolatedState when its server time
\* estimate is serverTime
RenderAt(serverTime) ==
    /\ returned' = GetInterpolatedState(snapshots, serverTime)
    /\ UNCHANGED <<players, balls, events, matchState, countdown, matchTime,
                   tickCount, tickInterval, registered, playerMatchMap, snapshot,
                   applied, winCount, stopCalls, mgrVars, snapshots, gameVars,
                   replayVars, wire>>

NextFrames ==
    \/ \E ts \in 0 .. MaxStamp : ReceiveAt(ts)
    \/ \E d \in -1 .. MaxStamp + 1 : RenderAt(InterpolationDelay + d)

SpecFrames == InitClient /\ [][NextFrames]_vars

\* C21: an interpolation frame returned by getInterpolatedState lies around
\* the interpolation time, prev.timestamp <= time <= next.timestamp, and its
\* fraction num / den is a number between 0 and 1.
C21_FrameBracketsTime ==
    returned.kind = "interpolated" =>
        /\ returned.prev.timestamp <= returned.time
        /\ returned.time <= returned.next.timestamp
        /\ returned.den > 0
        /\ 0 <= returned.num /\ returned.num <= returned.den

\* C22: with exactly two snapshots buffered, of timestamps T1 < T2, a call
\* at an interpolation time R with T1 < R < T2 returns prev = the first,
\* next = the second and the fraction (R - T1) / (T2 - T1).
C22_FractionBetweenTwo ==
    [][(/\ snapshots' = snapshots
        /\ returned' # returned
        /\ Len(snapshots) = 2
        /\ snapshots[1].timestamp < returned'.time
        /\ returned'.time < snapshots[2].timestamp) =>
          /\ returned'.kind = "interpolated"
          /\ returned'.prev = snapshots[1]
          /\ returned'.next = snapshots[2]
          /\ returned'.num = returned'.time - snapshots[1].timestamp
          /\ returned'.den = snapshots[2].timestamp - snapshots[1].timestamp]_vars

\* C22: two snapshots are buffered and the last call fell strictly between
\* them
C22_Witness ==
    /\ Len(snapshots) = 2
    /\ returned.kind = "interpolated"
    /\ returned.prev = snapshots[1] /\ returned.next = snapshots[2]
    /\ 0 < returned.num /\ returned.num < returned.den

\* C23: the buffer never holds more than 20 snapshots, and a received
\* snapshot leaves in it the most recent min(n, 20) snapshots in the order of
\* arrival: the new one is last and the oldest is dropped when 20 were held.
C23_BufferKeepsNewest ==
    [][/\ Len(snapshots') <= 20
       /\ snapshots' # snapshots =>
             /\ Len(snapshots') = IF Len(snapshots) < 20 THEN Len(snapshots) + 1 ELSE 20
             /\ \A i \in 1 .. Len(snapshots') - 1 :
                   snapshots'[i] = snapshots[i + Len(snapshots) + 1 - Len(snapshots')]
             /\ \A i \in DOMAIN snapshots : snapshots'[Len(snapshots')] # snapshots[i]
             /\ snapshots'[Len(snapshots')].tick =
                   IF snapshots = <<>> THEN 2 ELSE snapshots[Len(snapshots)].tick + 2]_vars

\* C23: the buffer is full and its two oldest snapshots have been dropped
C23_Witness ==
    /\ Len(snapshots) = 20
    /\ snapshots[1].tick = 6
    /\ snapshots[20].tick = 44


---------------------------------------------------------------------------
(* A ball held through the playing phase: blue picks a ball up at the      *)
(* centre line right after the respawn and keeps it until shortly before   *)
(* the match clock runs out                                                *)

\* k ticks without arriving packets; a respawn among them draws x for all
RECURSIVE Coast(_, _, _)
Coast(m, k, x) ==
    IF k = 0 THEN m
    ELSE IF k = 1 THEN TickFn(m, [id \in DOMAIN m.players |-> x])
    ELSE LET h == Coast(m, k \div 2, x)
         IN  IF h.tickCount >= 0 THEN Coast(h, k - k \div 2, x) ELSE h

\* a catch intent of player id, facing +z, arrives and the tick runs
CatchTick(m, id) ==
    TickFn([m EXCEPT !.players =
               OnInput(@, id, Packet(@[id].lastInputSeq + 1, ZeroVec,
                                     [x |-> 0, z |-> 1], FALSE, NoThrow, TRUE))],
           [q \in DOMAIN m.players |-> 0])

\* blue's walk from the spawn line to the centre line and its catch intent
\* there, one tick later
WalkAndCatch(m) ==
    IF m.tickCount >= 0
    THEN CatchTick(Advance(m, {Sockets[1]}, WalkTicks), Sockets[1])
    ELSE m

\* the match one tick after blue's catch intent at the centre line, in the
\* playing phase: warmup, respawn on the line of x, blue's walk, the intent
HoldBegins(x) ==
    WalkAndCatch(Coast(NewMatch(CasualPlayers, [i \in 1 .. CasualPlayers |-> x]),
                       WarmTicks + 2, x))

\* ticks left to the late window when the model starts
HoldTicks == 4

\* packets a player sends in the model
MaxHoldPackets == 2

\* the intents drawn here: blue catches or throws facing +z, with a charge
\* of 0 or of 2.0; red tries to catch facing -z; nobody moves
HoldKinds(p, seq) ==
    IF p.team = "blue"
    THEN { Packet(seq, ZeroVec, [x |-> 0, z |-> 1], FALSE, NoThrow, TRUE) }
         \cup { Packet(seq, ZeroVec, [x |-> 0, z |-> 1], FALSE,
                       [active |-> TRUE, charge |-> c, curve |-> 0], FALSE) :
                  c \in {0, 4} }
    ELSE { Packet(seq, ZeroVec, [x |-> 0, z |-> -1], FALSE, NoThrow, TRUE) }

\* the match coasts, from a state in the playing phase, to the tick k
CoastTo(m, k) == IF m.tickCount >= 0 THEN Coast(m, k - m.tickCount, 0) ELSE m

\* blue has held its ball since the start of the playing phase
InitHold ==
    /\ Holds(CoastTo(HoldBegins(-60), LateTicks - HoldTicks))
    /\ registered = TRUE
    /\ NoManager /\ NoClient
    /\ playerMatchMap = {Sockets[i] : i \in 1 .. CasualPlayers}

\* the next packet of a player arrives
HoldArrives ==
    \E id \in playerMatchMap :
        /\ id \in DOMAIN players
        /\ players[id].inputBuffer = <<>>
        /\ Len(applied[id]) < MaxHoldPackets
              + (IF players[id].team = "blue" THEN WalkTicks + 1 ELSE 0)
        /\ \E packet \in HoldKinds(players[id], NextSeq(players[id])) :
              Input(id, packet)

\* the tick, to the end of the match
TickHold == tickCount >= LateTicks - HoldTicks /\ Tick

NextHold ==
    \/ HoldArrives
    \/ TickHold
    \/ \E id \in playerMatchMap : Disconnect(id)

\* a step that counts a tick while the interval timer is set: of the steps
\* of the model exactly those of Tick
TimerFires == tickInterval = "running" /\ tickCount' = tickCount + 1

\* the interval timer keeps firing while it is set
SpecHold == InitHold /\ [][NextHold]_vars /\ WF_tickCount(TimerFires)

\* C24: in the playing phase an alive player that holds a ball later has
\* released it, is out or has left the match.
C24_HolderEliminated ==
    \A id \in {Sockets[i] : i \in 1 .. CasualPlayers}, bid \in BallIds :
        (/\ matchState = "playing"
         /\ id \in DOMAIN players
         /\ players[id].state = "alive"
         /\ players[id].holding = bid)
        ~> (\/ id \notin DOMAIN players
            \/ players[id].state # "alive"
            \/ players[id].holding # bid)


\* 25 and 62.5 units per second, the horizontal speeds of charge 0 and 1.5
MinThrowSpeed == 50
MaxThrowSpeed == 125

\* C25: a ball that a tick turns from held into thrown leaves the tick with
\* a horizontal speed between 25 and 62.5 units per second, whatever charge
\* the throw intent carried.
C25_ThrowSpeedBounded ==
    [][\A bid \in DOMAIN balls :
         (balls[bid].state = "held" /\ bid \in DOMAIN balls'
          /\ balls'[bid].state = "thrown")
         => /\ balls'[bid].vx * balls'[bid].vx + balls'[bid].vz * balls'[bid].vz
                 >= MinThrowSpeed * MinThrowSpeed
            /\ balls'[bid].vx * balls'[bid].vx + balls'[bid].vz * balls'[bid].vz
                 <= MaxThrowSpeed * MaxThrowSpeed]_vars


\* buffer new is buffer old with one packet more, of a sequence number
\* above last
OneFreshPacket(old, new, last) ==
    /\ Len(new) = Len(old) + 1
    /\ \E k \in 1 .. Len(new) :
          /\ new[k].seq > last
          /\ SubSeq(new, 1, k - 1) \o SubSeq(new, k + 1, Len(new)) = old

\* C26: a step between two ticks that is no disconnect changes the match
\* only by buffering one packet whose seq is above the lastInputSeq of its
\* player, so a packet with seq <= lastInputSeq, or one of a connection that
\* is no player of the match, changes nothing.
C26_StaleDropped ==
    [][(tickCount' = tickCount /\ playerMatchMap' = playerMatchMap
        /\ registered' = registered /\ stopCalls' = stopCalls)
       => /\ UNCHANGED <<balls, events, matchState, countdown, matchTime,
                         tickInterval, snapshot, applied, winCount>>
          /\ DOMAIN players' = DOMAIN players
          /\ \E id \in DOMAIN players :
                /\ \A q \in DOMAIN players \ {id} : players'[q] = players[q]
                /\ players'[id] = [players[id] EXCEPT
                                     !.inputBuffer = players'[id].inputBuffer]
                /\ OneFreshPacket(players[id].inputBuffer,
                                  players'[id].inputBuffer,
                                  players[id].lastInputSeq)]_vars

\* a packet below the lastInputSeq of a player can arrive, and so can one of
\* a connection that has left the match
C26_Witness ==
    /\ \E id \in DOMAIN players :
          players[id].lastInputSeq >= 1 /\ players[id].inputBuffer = <<>>
    /\ \E i \in 1 .. CasualPlayers : Sockets[i] \notin DOMAIN players
    /\ tickInterval = "running"


\* ball bid is in flight, not owned by id, within 3.0 of id and faced by it
InFlightCase(id, bid) ==
    /\ balls[bid].state = "thrown" /\ balls[bid].owner # id
    /\ DistLess(players[id], balls[bid], 180)
    /\ Facing(players[id], balls[bid])

\* ball bid is idle within 2.0 of id, and id holds no ball
IdleCase(id, bid) ==
    /\ balls[bid].state = "idle" /\ players[id].holding = NoBall
    /\ DistLess(players[id], balls[bid], 120)

\* the balls that m gives to id and that id does not have now
Acquired(m, id) ==
    {bid \in BallIds :
        /\ m.balls[bid].state = "held" /\ m.balls[bid].owner = id
        /\ m.players[id].holding = bid
        /\ ~(balls[bid].state = "held" /\ balls[bid].owner = id)}

\* the balls that m changes
Touched(m) == {bid \in BallIds : m.balls[bid] # balls[bid]}

\* the catch intent of id has led to the match m and given id the balls got:
\* at most one ball, no other ball changed, the ball was in one of the two
\* cases, and the catch event is there exactly in the first
CatchRight(m, got, id) ==
    /\ Cardinality(got) <= 1
    /\ Touched(m) = got
    /\ \A bid \in got :
          \/ /\ InFlightCase(id, bid)
             /\ m.events = Append(events, [type |-> "catch", playerId |-> id,
                                           ballId |-> bid])
          \/ /\ IdleCase(id, bid)
             /\ m.events = events
    /\ got = {} => (m.events = events /\ m.players = players)

\* the same for the match m alone
CatchOutcome(m, id) == CatchRight(m, Acquired(m, id), id)

\* C30: a catch intent of a player, in any state of the match, gives it at
\* most one ball, either one in flight that it does not own, within 3.0 and
\* faced, or an idle one within 2.0 while it holds none; it changes no other
\* ball, and it emits a catch event exactly in the first case.
C30_CatchCases ==
    \A id \in DOMAIN players : CatchOutcome(TryCatch(Cur, id), id)


\* a player holds the ball in flight that its catch intent caught, and the
\* catch event is in the accumulator
C30_Witness ==
    /\ \E i \in 1 .. Len(events) :
          /\ events[i].type = "catch"
          /\ events[i].playerId \in DOMAIN players
          /\ players[events[i].playerId].holding = events[i].ballId
          /\ balls[events[i].ballId].state = "held"
          /\ balls[events[i].ballId].owner = events[i].playerId


---------------------------------------------------------------------------
(* Two NetworkManagers fed the same messages: the first is also called at  *)
(* clock values at which the second is not                                 *)

\* largest distance of the client clock from the server clock, in ms
MaxSkew == 1

\* the clock values of the calls, around the delay and the timestamps
CallTimes == (InterpolationDelay - MaxSkew - 1) .. (InterpolationDelay + MaxStamp + MaxSkew + 1)

\* a getInterpolatedState that drops the oldest snapshot it has read
AfterCallShifted(buf) == IF buf = <<>> THEN buf ELSE Tail(buf)

\* the buffer after a call of getInterpolatedState, which assigns no field
AfterCall(buf) == buf

\* Date.now() + this.serverTimeOffset
ServerTime(now, offset) == now + offset

\* the 'init' listener of both: serverTimeOffset = data.serverTime - Date.now()
OnInitBoth(offset) ==
    /\ snapshots = <<>> /\ replaySnapshots = <<>>
    /\ serverTimeOffset' = offset /\ replayOffset' = offset
    /\ UNCHANGED <<players, balls, events, matchState, countdown, matchTime,
                   tickCount, tickInterval, registered, playerMatchMap, snapshot,
                   applied, winCount, stopCalls, mgrVars, snapshots, returned,
                   gameState, isOnline, myId, gamePlayers, gameBalls, isLocked,
                   lastFrameTime, inputSeq, replaySnapshots, replayReturned, wire>>

\* the same snapshot, of timestamp ts, arrives at both
ReceiveBoth(ts) ==
    /\ Len(snapshots) < MaxHeld /\ Len(replaySnapshots) < MaxHeld
    /\ IF replaySnapshots = <<>> THEN TRUE
       ELSE replaySnapshots[Len(replaySnapshots)].timestamp <= ts
    /\ snapshots' =
          Pushed(snapshots, [tick |-> 2 * (Len(replaySnapshots) + 1), timestamp |-> ts])
    /\ replaySnapshots' =
          Pushed(replaySnapshots,
                 [tick |-> 2 * (Len(replaySnapshots) + 1), timestamp |-> ts])
    /\ UNCHANGED <<players, balls, events, matchState, countdown, matchTime,
                   tickCount, tickInterval, registered, playerMatchMap, snapshot,
                   applied, winCount, stopCalls, mgrVars, returned, gameVars,
                   replayOffset, replayReturned, wire>>

\* the first NetworkManager alone is called when the clock shows now
CallFirst(now) ==
    /\ returned' = GetInterpolatedState(snapshots, ServerTime(now, serverTimeOffset))
    /\ snapshots' = AfterCall(snapshots)
    /\ UNCHANGED <<players, balls, events, matchState, countdown, matchTime,
                   tickCount, tickInterval, registered, playerMatchMap, snapshot,
                   applied, winCount, stopCalls, mgrVars, gameVars, replayVars, wire>>

\* both are called when the clock shows now
CallBoth(now) ==
    /\ returned' = GetInterpolatedState(snapshots, ServerTime(now, serverTimeOffset))
    /\ snapshots' = AfterCall(snapshots)
    /\ replayReturned' =
          GetInterpolatedState(replaySnapshots, ServerTime(now, replayOffset))
    /\ replaySnapshots' = AfterCall(replaySnapshots)
    /\ UNCHANGED <<players, balls, events, matchState, countdown, matchTime,
                   tickCount, tickInterval, registered, playerMatchMap, snapshot,
                   applied, winCount, stopCalls, mgrVars, gameVars, replayOffset, wire>>

NextReplay ==
    \/ \E offset \in -MaxSkew .. MaxSkew : OnInitBoth(offset)
    \/ \E ts \in 0 .. MaxStamp : ReceiveBoth(ts)
    \/ \E now \in CallTimes : CallFirst(now)
    \/ \E now \in CallTimes : CallBoth(now)

SpecReplay == InitClient /\ [][NextReplay]_vars

---------------------------------------------------------------------------
(* The client online: App, Game and its NetworkManager from the menu to    *)
(* the match. The start buttons exist in the menu only and nothing sets    *)
(* the menu again once a game plays, so the offline game never meets this  *)
(* path and is left out.                                                   *)

\* the variables of the server side
matchVars == <<players, balls, events, matchState, countdown, matchTime,
               tickCount, tickInterval, registered, playerMatchMap, snapshot,
               applied, winCount, stopCalls>>

\* the socket id of the client and that of the other player of its match
MyId == Sockets[1]
Other == Sockets[2]

\* snapshots the client receives in its match
MaxGameSnaps == 3

\* render frames of the client, 30 a second
MaxGameFrames == 7

\* the k-th WorldSnapshot of the match: the client's player in the state st,
\* the other one alive, one ball at rest on the server's floor
GameSnapshot(k, st) ==
    [tick |-> 2 * k, timestamp |-> SnapshotTime(k),
     players |-> [id \in {MyId, Other} |->
                    [state |-> IF id = MyId THEN st ELSE "alive"]],
     balls |-> [bid \in {0} |-> [state |-> "idle", y |-> 21, vy |-> 0]]]

\* THREE's lerp on integers: a + (b - a) * num / den
Lerp(a, b, num, den) == a + ((b - a) * num) \div den

\* the frame applyInterpolatedState is given for a result of
\* getInterpolatedState: a single snapshot counts as prev = next, fraction 1
FrameOf(state) ==
    IF state.kind = "snapshot"
    THEN [prev |-> state.snapshot, next |-> state.snapshot, num |-> 1, den |-> 1]
    ELSE [prev |-> state.prev, next |-> state.next, num |-> state.num,
          den |-> state.den]

\* applyInterpolatedState, the players: the own player is updated when the
\* map holds it and is never added; the others are added and updated
AppliedPlayers(ps, me, frame) ==
    [id \in DOMAIN ps \cup (DOMAIN frame.next.players \ {me}) |->
        IF id \in DOMAIN frame.next.players
        THEN [isOut |-> frame.next.players[id].state = "out"]
        ELSE ps[id]]

\* applyInterpolatedState, the balls: a missing ball is added with the
\* position and velocity of next; a ball that is not held is placed between
\* prev and next
AppliedBalls(bs, frame) ==
    [bid \in DOMAIN bs \cup DOMAIN frame.next.balls |->
        IF bid \in DOMAIN frame.next.balls
        THEN [state |-> frame.next.balls[bid].state,
              y |-> IF frame.next.balls[bid].state = "held"
                    THEN (IF bid \in DOMAIN bs THEN bs[bid].y
                          ELSE frame.next.balls[bid].y)
                    ELSE Lerp((IF bid \in DOMAIN frame.prev.balls
                               THEN frame.prev.balls[bid].y
                               ELSE frame.next.balls[bid].y),
                              frame.next.balls[bid].y, frame.num, frame.den),
              vy |-> IF bid \in DOMAIN bs THEN bs[bid].vy
                     ELSE frame.next.balls[bid].vy]
        ELSE bs[bid]]

\* the vertical velocity after the floor: times -0.6, and 0 below 1.0
Bounced(vy) ==
    IF MulFrac(vy, -6, 10) < 2 /\ MulFrac(vy, -6, 10) > -2 THEN 0
    ELSE MulFrac(vy, -6, 10)

\* updateBalls for one ball and a frame of 1/30 s, vertically: the velocity
\* moves the ball, gravity (15) acts above 0.3, the floor is at 0.3
ClientBall(b) ==
    IF b.state = "held" THEN b
    ELSE IF b.y + b.vy < 18
    THEN [b EXCEPT !.y = 18, !.vy = Bounced(@), !.state = "idle"]
    ELSE IF b.y + b.vy > 18
    THEN [b EXCEPT !.y = @ + b.vy, !.vy = @ - 1]
    ELSE [b EXCEPT !.y = 18]

\* Game.connect from the menu
StartOnline ==
    /\ gameState = "menu"
    /\ gameState' = "lobby"
    /\ isOnline' = TRUE
    /\ UNCHANGED <<matchVars, mgrVars, snapshots, returned, myId, gamePlayers,
                   gameBalls, isLocked, lastFrameTime, inputSeq,
                   serverTimeOffset, replayVars, wire>>

\* Game.disconnect from the lobby: the NetworkManager is replaced by a new one
CancelOnline ==
    /\ gameState = "lobby"
    /\ gameState' = "menu"
    /\ isOnline' = FALSE
    /\ isLocked' = FALSE
    /\ snapshots' = <<>> /\ inputSeq' = 0 /\ serverTimeOffset' = 0
    /\ UNCHANGED <<matchVars, mgrVars, returned, myId, gamePlayers, gameBalls,
                   lastFrameTime, replayVars, wire>>

\* the 'init' message of the match: the offset is set, onInit takes the id
\* and clears the players and the balls, and App leaves the lobby
GameInit(offset) ==
    /\ gameState = "lobby"
    /\ gameState' = "playing"
    /\ serverTimeOffset' = offset
    /\ myId' = MyId
    /\ gamePlayers' = <<>> /\ gameBalls' = <<>>
    /\ UNCHANGED <<matchVars, mgrVars, snapshots, returned, isOnline, isLocked,
                   lastFrameTime, inputSeq, replayVars, wire>>

\* the pointer lock is taken or lost while the game plays
ToggleLock ==
    /\ gameState = "playing"
    /\ isLocked' = ~isLocked
    /\ UNCHANGED <<matchVars, mgrVars, snapshots, returned, gameState, isOnline,
                   myId, gamePlayers, gameBalls, lastFrameTime, inputSeq,
                   serverTimeOffset, replayVars, wire>>

\* the next snapshot of the match arrives
GameReceive(st) ==
    /\ gameState = "playing"
    /\ IF snapshots = <<>> THEN TRUE
       ELSE snapshots[Len(snapshots)].tick < 2 * MaxGameSnaps
    /\ snapshots' =
          Pushed(snapshots,
                 GameSnapshot((IF snapshots = <<>> THEN 1
                               ELSE snapshots[Len(snapshots)].tick \div 2 + 1), st))
    /\ UNCHANGED <<matchVars, mgrVars, returned, gameVars, replayVars, wire>>

\* the result of getInterpolatedState in the frame after lastFrameTime
FrameState ==
    GetInterpolatedState(snapshots,
                         ServerTime(FrameTime(lastFrameTime + 1), serverTimeOffset))

\* the players after the first part of animate
FramePlayers ==
    IF isOnline /\ FrameState.kind # "null"
    THEN AppliedPlayers(gamePlayers, myId, FrameOf(FrameState))
    ELSE gamePlayers

\* the balls after the first part of animate
FrameBalls ==
    IF isOnline /\ FrameState.kind # "null"
    THEN AppliedBalls(gameBalls, FrameOf(FrameState))
    ELSE gameBalls

\* the test before sendInput: the controls are active, myPlayer, read from
\* the map at the start of the frame, exists and is not out
SendsInput ==
    /\ isOnline /\ isLocked
    /\ myId \in DOMAIN gamePlayers
    /\ ~FramePlayers[myId].isOut

\* Game.animate: the frame of the server state, the input, the balls
Frame ==
    /\ lastFrameTime < MaxGameFrames
    /\ lastFrameTime' = lastFrameTime + 1
    /\ returned' = IF isOnline THEN FrameState ELSE returned
    /\ gamePlayers' = FramePlayers
    /\ gameBalls' = [bid \in DOMAIN FrameBalls |-> ClientBall(FrameBalls[bid])]
    /\ inputSeq' = IF SendsInput THEN inputSeq + 1 ELSE inputSeq
    /\ UNCHANGED <<matchVars, mgrVars, snapshots, gameState, isOnline, myId,
                   isLocked, serverTimeOffset, replayVars, wire>>

NextGame ==
    \/ StartOnline
    \/ CancelOnline
    \/ \E offset \in -MaxSkew .. MaxSkew : GameInit(offset)
    \/ ToggleLock
    \/ \E st \in {"alive", "out"} : GameReceive(st)
    \/ Frame

SpecGame == InitClient /\ [][NextGame]_vars


\* C27: a frame of the client online with fewer than two snapshots in the
\* buffer gets null from getInterpolatedState and leaves the players and the
\* balls of the client as they are.
C27_NullFrameKeepsState ==
    [][(lastFrameTime' # lastFrameTime /\ isOnline /\ Len(snapshots) < 2)
       => /\ returned'.kind = "null"
          /\ gamePlayers' = gamePlayers
          /\ gameBalls' = gameBalls]_vars

\* a frame of the match got null while one snapshot was buffered
C27_Witness ==
    /\ gameState = "playing" /\ isOnline
    /\ Len(snapshots) = 1
    /\ lastFrameTime >= 1
    /\ returned.kind = "null"
    /\ returned.time = ServerTime(FrameTime(lastFrameTime), serverTimeOffset)
                          - InterpolationDelay

\* C29: a frame of the client online, after init, with the pointer locked
\* and with buffered snapshots that all hold the client's player alive,
\* calls sendInput.
C29_FrameSendsInput ==
    [][(/\ lastFrameTime' # lastFrameTime
        /\ isOnline /\ gameState = "playing" /\ myId = MyId /\ isLocked
        /\ Len(snapshots) >= 2
        /\ \A i \in DOMAIN snapshots :
              /\ myId \in DOMAIN snapshots[i].players
              /\ snapshots[i].players[myId].state = "alive")
       => inputSeq' = inputSeq + 1]_vars

---------------------------------------------------------------------------
(* Hit detection: who is eliminated, by which ball, with which cause *)

\* the balls.forEach of step 2 of Match.tick up to, and without, ball stop
RECURSIVE PhysicsUntil(_, _, _)
PhysicsUntil(m, bid, stop) ==
    IF bid >= stop THEN m
    ELSE PhysicsUntil(StepBall(m, bid), bid + 1, stop)

\* the match inside Match.tick when ball bid has been moved and bounced and
\* its hit detection is about to be decided
AtDetection(m, bid) ==
    [PhysicsUntil(Inputs(Transition(Clocks(Count(m)),
                                    [id \in DOMAIN m.players |-> 0])), 0, bid)
       EXCEPT !.balls[bid] = IF @.state \in {"thrown", "idle"} THEN FreeBall(@) ELSE @]

\* the events that the match post has accumulated after the match pre
EventsSince(pre, post) == SubSeq(post.events, Len(pre.events) + 1, Len(post.events))

\* what one run of the hit detection of ball bid does, from pre to post
HitPassRight(pre, post, bid) ==
    /\ post # pre => HitDue(pre.balls[bid])
    /\ \A id \in DOMAIN pre.players :
          post.players[id] # pre.players[id] =>
              /\ pre.players[id].state = "alive"
              /\ id # pre.balls[bid].owner
    /\ \A i \in DOMAIN EventsSince(pre, post) :
          /\ EventsSince(pre, post)[i].type = "elimination"
          /\ EventsSince(pre, post)[i].by = pre.balls[bid].owner
          /\ EventsSince(pre, post)[i].by \in DOMAIN post.players
          /\ EventsSince(pre, post)[i].by # EventsSince(pre, post)[i].playerId

\* the hit detection of ball bid run on the match pre, where the ball is
\* not held
HitPassAt(pre, bid) ==
    IF pre.balls[bid].state \in {"thrown", "idle"}
    THEN HitPassRight(pre, DetectHits(pre, bid), bid)
    ELSE TRUE

\* the hit detection of ball bid in the tick that starts in this state
HitPassOf(bid) == HitPassAt(AtDetection(Cur, bid), bid)

\* C31: a ball in state 'thrown' always has an owner who is a player of the
\* match. In every tick the hit detection of a ball changes something only
\* when the ball is thrown and faster than 5; it changes only players who
\* were alive and are not the ball's owner; and every event it pushes is an
\* elimination whose cause is the ball's owner, a player of the match other
\* than the eliminated one. Every hit elimination a tick reports names an
\* eliminated player who was alive and a cause who is a player of the match.
C31_HitsOnlyByThrower ==
    [][/\ \A bid \in BallIds :
             balls[bid].state = "thrown" => balls[bid].owner \in DOMAIN players
       /\ tickCount' # tickCount =>
             /\ \A bid \in BallIds : HitPassOf(bid)
             /\ \A i \in DOMAIN Appended :
                   (Appended[i].type = "elimination" /\ Appended[i].by # "disconnect") =>
                       /\ Appended[i].by \in DOMAIN players'
                       /\ Appended[i].by # Appended[i].playerId
                       /\ players[Appended[i].playerId].state = "alive"
                       /\ players'[Appended[i].playerId].state = "out"]_vars

\* C31: a snapshot has reported the elimination of a player by the throw of
\* another player of the match, and the thrower is still alive
C31_Witness ==
    \E i \in DOMAIN snapshot.events :
        /\ snapshot.events[i].type = "elimination"
        /\ snapshot.events[i].by \in DOMAIN players
        /\ snapshot.events[i].playerId \in DOMAIN players
        /\ players[snapshot.events[i].playerId].state = "out"
        /\ players[snapshot.events[i].by].state = "alive"

---------------------------------------------------------------------------
(* Intents of a player who is not alive *)

\* intents with every combination of moving, sprinting, throwing and catching
AnyIntents(seq) ==
    { Packet(seq, [x |-> 0, z |-> mz], [x |-> 1, z |-> 0], sp,
             [active |-> th, charge |-> 2, curve |-> 0], ca) :
        mz \in {0, 1}, sp \in BOOLEAN, th \in BOOLEAN, ca \in BOOLEAN }

\* the match m with the lastInputSeq of player id set to seq, as TakeSeq
\* records it
OnlySeq(m, id, seq) ==
    [m EXCEPT !.players[id].lastInputSeq = seq, !.applied[id] = Append(@, seq)]

\* the match m after the intents buf of player id have been taken one after
\* the other with no effect but on lastInputSeq
RECURSIVE OnlySeqs(_, _, _)
OnlySeqs(m, id, buf) ==
    IF buf = <<>> THEN [m EXCEPT !.players[id].inputBuffer = <<>>]
    ELSE OnlySeqs(OnlySeq(m, id, Head(buf).seq), id, Tail(buf))

\* C32: for a player of the match who is not alive, the loop body of step 1
\* of the tick changes, for every intent, only the player's lastInputSeq,
\* which becomes the intent's seq: position, velocity, facing, stamina, held
\* ball, every ball and the events stay as they are. Draining the buffer the
\* player has does the same for each buffered intent, and after a tick of the
\* playing phase the player's record differs from before only in the emptied
\* buffer and lastInputSeq.
C32_DeadIntentOnlySeq ==
    [][\A id \in DOMAIN players :
          players[id].state # "alive" =>
              /\ \A input \in AnyIntents(NextSeq(players[id])) :
                    ApplyInput(Cur, id, input) = OnlySeq(Cur, id, input.seq)
              /\ Drain(Cur, id) = OnlySeqs(Cur, id, players[id].inputBuffer)
              /\ (tickCount' # tickCount /\ matchState # "warmup") =>
                    players'[id] = OnlySeqs(Cur, id, players[id].inputBuffer).players[id]]_vars

\* C32: an eliminated player has an intent buffered, the next tick will
\* consume it
C32_Witness ==
    \E id \in DOMAIN players :
        /\ players[id].state = "out"
        /\ players[id].inputBuffer # <<>>
        /\ players[id].inputBuffer[1].catch
        /\ tickInterval = "running"

---------------------------------------------------------------------------
(* What a tick takes from the input buffers *)

\* whether the numbers ns never decrease
NonDecreasing(ns) == \A i \in DOMAIN ns : i > 1 => ns[i - 1] <= ns[i]

\* the largest of the numbers ns, or the constructor's lastInputSeq of 0
LargestOf(ns) ==
    IF ns = <<>> THEN 0
    ELSE CHOOSE n \in {ns[i] : i \in DOMAIN ns} : \A i \in DOMAIN ns : ns[i] <= n

\* C33: handlers and ticks run one at a time, and a tick leaves the input
\* buffer of every player of the match empty: the intents that were
\* buffered when it started are exactly the ones it takes, in buffer order,
\* which is ascending in seq (equal numbers next to each other), and after
\* it lastInputSeq is the largest seq taken since the match was created.
C33_TickDrainsBuffers ==
    [][tickCount' # tickCount =>
          \A id \in DOMAIN players :
              /\ id \in DOMAIN players'
              /\ players'[id].inputBuffer = <<>>
              /\ applied'[id] = applied[id] \o SeqsOf(players[id].inputBuffer)
              /\ NonDecreasing(SeqsOf(players[id].inputBuffer))
              /\ players'[id].lastInputSeq = LargestOf(applied'[id])]_vars

\* C33: the first tick of the model has taken two intents of one player
C33_Witness ==
    /\ tickCount \in {WarmTicks + 1, LateTicks + 1}
    /\ \E id \in DOMAIN players :
          /\ Len(applied[id]) = 2
          /\ applied[id][1] < applied[id][2]
          /\ players[id].inputBuffer = <<>>

---------------------------------------------------------------------------
(* The client's numbering of its input packets against the server's test *)

\* calls of NetworkManager.sendInput in the model
MaxSent == 3

\* packets on the way to the server at a time
MaxWire == 2

\* ticks of the match in the model
MaxSendTicks == 4

\* the intents the client sends: standing, or walking along +z
SendKinds(seq) ==
    { Packet(seq, [x |-> 0, z |-> mz], [x |-> 0, z |-> 1], FALSE, NoThrow, FALSE) :
        mz \in {0, 1} }

\* the match has been created with the client's connection as its first
\* player, the client has received 'init' and its game plays
InitSend ==
    /\ Holds(NewMatch(CasualPlayers, [i \in 1 .. CasualPlayers |-> -60]))
    /\ registered = TRUE
    /\ playerMatchMap = {Sockets[i] : i \in 1 .. CasualPlayers}
    /\ NoManager
    /\ snapshots = <<>> /\ returned = NoCall /\ NoReplay /\ wire = <<>>
    /\ gameState = "playing" /\ isOnline = TRUE /\ myId = MyId
    /\ gamePlayers = <<>> /\ gameBalls = <<>>
    /\ isLocked = TRUE /\ lastFrameTime = 0
    /\ inputSeq = 0 /\ serverTimeOffset = 0

\* NetworkManager.sendInput(input): the packet takes seq = inputSeq++ and is
\* emitted on the socket
SendInput ==
    /\ inputSeq < MaxSent
    /\ Len(wire) < MaxWire
    /\ \E packet \in SendKinds(inputSeq) : wire' = Append(wire, packet)
    /\ inputSeq' = inputSeq + 1
    /\ UNCHANGED <<matchVars, mgrVars, snapshots, returned, gameState, isOnline,
                   myId, gamePlayers, gameBalls, isLocked, lastFrameTime,
                   serverTimeOffset, replayVars>>

\* the oldest packet on the way reaches the 'input' listener of the match
SendArrives ==
    /\ wire # <<>>
    /\ players' = OnInput(players, MyId, Head(wire))
    /\ wire' = Tail(wire)
    /\ UNCHANGED <<balls, events, matchState, countdown, matchTime, tickCount,
                   tickInterval, registered, playerMatchMap, snapshot, applied,
                   winCount, stopCalls>>
    /\ UNCHANGED <<mgrVars, snapshots, returned, gameVars, replayVars>>

TickSend == tickCount < MaxSendTicks /\ Tick

NextSend ==
    \/ SendInput
    \/ SendArrives
    \/ TickSend

SpecSend == InitSend /\ [][NextSend]_vars

\* C34: every packet sent through sendInput that reaches the server, in
\* sending order, is put into the input buffer of the client's player by the
\* listener, and the next tick applies it (its seq is assigned to
\* lastInputSeq); the first packet sent in the match is among them.
C34_SentIsApplied ==
    [][/\ Len(wire') < Len(wire) =>
             \E i \in DOMAIN players'[MyId].inputBuffer :
                 players'[MyId].inputBuffer[i] = Head(wire)
       /\ tickCount' # tickCount =>
             applied'[MyId] = applied[MyId] \o SeqsOf(players[MyId].inputBuffer)]_vars

---------------------------------------------------------------------------
(* A throw at a player who holds a ball, in the playing phase *)

\* the intent packet arrives from player id and the tick runs
IntentTick(m, id, packet) ==
    IF m.tickCount >= 0
    THEN TickFn([m EXCEPT !.players = OnInput(@, id, packet)],
                [q \in DOMAIN m.players |-> 0])
    ELSE m

\* player id sprints k ticks along x in the direction dx, facing +z
RECURSIVE SideWalk(_, _, _, _)
SideWalk(m, id, dx, k) ==
    IF k = 0 THEN m
    ELSE IF k = 1
    THEN IntentTick(m, id, Packet(m.players[id].lastInputSeq + 1,
                                  [x |-> dx, z |-> 0], [x |-> 0, z |-> 1],
                                  TRUE, NoThrow, FALSE))
    ELSE LET h == SideWalk(m, id, dx, k \div 2)
         IN  IF h.tickCount >= 0 THEN SideWalk(h, id, dx, k - k \div 2) ELSE h

\* player id throws with charge 0, facing +z
ThrowTick(m, id) ==
    IntentTick(m, id, Packet(m.players[id].lastInputSeq + 1, ZeroVec,
                             [x |-> 0, z |-> 1], FALSE,
                             [active |-> TRUE, charge |-> 0, curve |-> 0], FALSE))

\* player id tries to catch, facing -z, in each of k ticks
RECURSIVE CatchTicks(_, _, _)
CatchTicks(m, id, k) ==
    IF k = 0 THEN m
    ELSE IF k = 1
    THEN IntentTick(m, id, Packet(m.players[id].lastInputSeq + 1, ZeroVec,
                                  [x |-> 0, z |-> -1], FALSE, NoThrow, TRUE))
    ELSE LET h == CatchTicks(m, id, k \div 2)
         IN  IF h.tickCount >= 0 THEN CatchTicks(h, id, k - k \div 2) ELSE h

\* ticks in which red tries to catch blue's first throw
FlightTicks == 16

\* ticks of blue's walk to the next ball and of its walk back
SideTicks == 4

\* all players walk from their spawn lines towards the centre
WalkBoth(m) ==
    IF m.tickCount >= 0 THEN Advance(m, DOMAIN m.players, BothWalk) ELSE m

\* blue walks on to the centre line
WalkBlue(m) ==
    IF m.tickCount >= 0 THEN Advance(m, {Sockets[1]}, BlueWalk) ELSE m

\* the playing phase has begun on the line of x; both have walked towards
\* the centre, blue to the centre line
OutWalked(x) ==
    WalkBlue(WalkBoth(Coast(NewMatch(CasualPlayers,
                                     [i \in 1 .. CasualPlayers |-> x]),
                            WarmTicks + 2, x)))

\* blue picks a ball up and throws it, red catches it in flight
FirstThrow(m) ==
    IF m.tickCount >= 0
    THEN CatchTicks(ThrowTick(CatchTick(m, Sockets[1]), Sockets[1]),
                    Sockets[2], FlightTicks)
    ELSE m

\* blue fetches the next ball and comes back to red's line
NextBall(m) ==
    IF m.tickCount >= 0
    THEN SideWalk(CatchTick(SideWalk(m, Sockets[1], 1, SideTicks), Sockets[1]),
                  Sockets[1], -1, SideTicks)
    ELSE m

\* red holds the ball of blue's first throw, and blue holds the next ball
\* on red's line
OutBegins(x) == NextBall(FirstThrow(OutWalked(x)))

InitOut ==
    /\ Holds(OutBegins(-60))
    /\ registered = TRUE
    /\ NoManager /\ NoClient
    /\ playerMatchMap = {Sockets[i] : i \in 1 .. CasualPlayers}


\* ticks taken from the start of the model
MaxOutTicks == 20

\* packets a player sends in the model
MaxOutPackets == 2

\* the intents sent before the model starts: the walks, blue's two pickups
\* and its throw, red's catch attempts
SentBefore(p) ==
    IF p.team = "blue" THEN BothWalk + BlueWalk + 3 + 2 * SideTicks
    ELSE BothWalk + FlightTicks

\* the next packet of a player arrives: blue catches or throws facing +z,
\* red tries to catch facing -z
OutArrives ==
    \E id \in playerMatchMap :
        /\ id \in DOMAIN players
        /\ players[id].inputBuffer = <<>>
        /\ Len(applied[id]) < SentBefore(players[id]) + MaxOutPackets
        /\ \E packet \in HitKinds(players[id], NextSeq(players[id])) :
              Input(id, packet)

\* the tick count when the model starts: the warmup and the respawn, the
\* walks, blue's pickup and throw, red's catch attempts, blue's way to the
\* next ball, its pickup and its way back
OutStart == (WarmTicks + 2) + BothWalk + BlueWalk + 2 + FlightTicks + (2 * SideTicks + 1)

TickOut == tickCount < OutStart + MaxOutTicks /\ Tick

NextOut ==
    \/ OutArrives
    \/ TickOut
    \/ \E id \in playerMatchMap : Disconnect(id)

SpecOut == InitOut /\ [][NextOut]_vars

\* C35: in the playing phase a player whose state is 'out' holds no ball:
\* its holding is null and no ball is held with it as owner, at the end of
\* the tick that eliminates it and ever after.
C35_OutHoldsNothing ==
    matchState = "playing" =>
        \A id \in DOMAIN players :
            players[id].state = "out" =>
                /\ players[id].holding = NoBall
                /\ \A bid \in BallIds :
                      ~(balls[bid].state = "held" /\ balls[bid].owner = id)

---------------------------------------------------------------------------
(* The win event and the last broadcast *)

\* whether the events es hold a win event
HasWin(es) == \E i \in DOMAIN es : es[i].type = "win"

\* C36: the tick that emits the win event, and stops the loop, also
\* broadcasts: its snapshot carries the win event and goes to every player
\* of the match, who are the connections of the match that are still
\* connected; the accumulator is left empty. This holds whichever tick the
\* match finishes in.
C36_WinDelivered ==
    [][winCount' > winCount =>
          /\ tickCount' = tickCount + 1
          /\ tickInterval' = "cleared"
          /\ snapshot'.tick = tickCount'
          /\ HasWin(snapshot'.events)
          /\ snapshot'.to = DOMAIN players'
          /\ DOMAIN players' = playerMatchMap
          /\ events' = <<>>]_vars

\* C36: the match has finished with a player in it, and the snapshot of
\* the finishing tick has carried the win event to that player
C36_Witness ==
    /\ matchState = "finished"
    /\ winCount = 1
    /\ HasWin(snapshot.events)
    /\ snapshot.to # {}
    /\ snapshot.to = DOMAIN players

---------------------------------------------------------------------------
(* A throw at two players who stand close together, in a ranked match *)

\* x of the second red player: on the line of the throw, half a metre
\* beside it, two metres beside it
CrowdXs == {-60, -30, 60}

\* ticks taken from the start of the model
MaxCrowdTicks == 20

\* packets the thrower sends in the model
MaxCrowdPackets == 2

\* a ranked match: the first blue and the first red player on the line
\* x = -1, the second blue player on x = 1, the second red player on x4; all
\* have walked towards the centre, the first blue player to the centre line
InitCrowd ==
    /\ \E x4 \in CrowdXs :
          Holds(WalkBlue(WalkBoth(NewMatch(RankedPlayers, <<-60, -60, 60, x4>>))))
    /\ registered = TRUE
    /\ NoManager /\ NoClient
    /\ playerMatchMap = {Sockets[i] : i \in 1 .. RankedPlayers}

\* the next packet of the first blue player arrives: a catch or a throw
CrowdArrives ==
    /\ Sockets[1] \in playerMatchMap \cap DOMAIN players
    /\ players[Sockets[1]].inputBuffer = <<>>
    /\ Len(applied[Sockets[1]]) < BothWalk + BlueWalk + MaxCrowdPackets
    /\ \E packet \in HitKinds(players[Sockets[1]], NextSeq(players[Sockets[1]])) :
          Input(Sockets[1], packet)

TickCrowd == tickCount < BothWalk + BlueWalk + MaxCrowdTicks /\ Tick

NextCrowd ==
    \/ CrowdArrives
    \/ TickCrowd
    \/ \E id \in playerMatchMap : Disconnect(id)

SpecCrowd == InitCrowd /\ [][NextCrowd]_vars

\* the players whose state the hit detection of ball bid changes in the
\* tick that starts in this state
HitBy(bid) ==
    {id \in DOMAIN players :
        DetectHits(AtDetection(Cur, bid), bid).players[id].state
            # AtDetection(Cur, bid).players[id].state}

\* C37: in a tick the hit detection of one ball eliminates at most one
\* player.
C37_OneHitPerPass ==
    [][tickCount' # tickCount =>
          \A bid \in BallIds : Cardinality(HitBy(bid)) <= 1]_vars

---------------------------------------------------------------------------
(* How far a tick moves a player *)

\* sprint speed times the fixed step: 15 * 1/30 = 0.5, in units of 1/60
MaxStep == 30

\* whether the coordinate moves from a to b by at most MaxStep; a coordinate
\* that is not a number is left to the arena bounds
StepWithin(a, b) ==
    (~IsNaN(a) /\ ~IsNaN(b)) => (b - a <= MaxStep /\ a - b <= MaxStep)

\* C38: a tick that does not respawn the players moves every player by at
\* most 0.5 along x and by at most 0.5 along z, however many intents of the
\* player it consumes.
C38_StepBounded ==
    [][(tickCount' # tickCount /\ matchState' = matchState) =>
          \A id \in DOMAIN players :
              /\ StepWithin(players[id].x, players'[id].x)
              /\ StepWithin(players[id].z, players'[id].z)]_vars

---------------------------------------------------------------------------
(* The queues between handlers *)

\* whether no socket is twice in the list q
NoRepeat(q) == \A i \in DOMAIN q : \A j \in DOMAIN q : q[i] = q[j] => i = j

\* C39: between the handlers of the manager the casual queue holds fewer
\* than 2 sockets and the ranked queue fewer than 4, no socket is twice in
\* a queue, and no socket is in both queues.
C39_QueuesBelowThreshold ==
    /\ Len(casualQueue) < CasualPlayers
    /\ Len(rankedQueue) < RankedPlayers
    /\ NoRepeat(casualQueue)
    /\ NoRepeat(rankedQueue)
    /\ Ids(casualQueue) \cap Ids(rankedQueue) = {}

\* C39: both queues are as full as they can be, one socket waits for a
\* casual match and three for a ranked one
C39_Witness ==
    /\ Len(casualQueue) = CasualPlayers - 1
    /\ Len(rankedQueue) = RankedPlayers - 1

---------------------------------------------------------------------------
(* Snapshots that reach the client in any order *)

\* broadcasts of the server that reach the client
MaxArrivals == 4

\* render frames of the client
MaxLateFrames == 12

\* the k-th snapshot of the server arrives, before or after the others
ReceiveAny(k) ==
    /\ \A i \in DOMAIN snapshots : snapshots[i] # SnapshotNo(k)
    /\ snapshots' = Pushed(snapshots, SnapshotNo(k))
    /\ UNCHANGED <<matchVars, mgrVars, returned, gameVars, replayVars, wire>>

NextReorder ==
    \/ \E k \in 1 .. MaxArrivals : ReceiveAny(k)
    \/ \E j \in 0 .. MaxLateFrames : Render(j)

SpecReorder == InitClient /\ [][NextReorder]_vars

\* C40: whatever the order in which the snapshots arrive, tick and
\* timestamp never decrease along the buffer, and a pair returned by
\* getInterpolatedState has prev.tick < next.tick.
C40_BufferOrdered ==
    /\ \A i \in DOMAIN snapshots :
          i > 1 => /\ snapshots[i - 1].tick <= snapshots[i].tick
                   /\ snapshots[i - 1].timestamp <= snapshots[i].timestamp
    /\ returned.kind = "interpolated" => returned.prev.tick < returned.next.tick

=============================================================================
